---- MODULE Spec2Model ----
(***************************************************************************)
(* The realtime conversation and messaging engine of the Raceef backend:   *)
(* the chat HTTP handlers (methods/chat.ts) over the conversation store,   *)
(* and the websocket connection layer (websocket.ts).                      *)
(*                                                                         *)
(* Every HTTP handler is an async function: each `await` on the store is a *)
(* point where other handlers run.  A handler in progress occupies a slot  *)
(* of `req`; each of its store statements is one action.  Handlers that    *)
(* issue a single statement are one action.                                *)
(*                                                                         *)
(* Strings are sequences of character ranks ('0'..'9' = 0..9,              *)
(* 'a'..'z' = 10..35), so that string comparison is LexLess.  ISO          *)
(* timestamps (now()) are fixed-width and order-preserving; they are       *)
(* represented by their epoch-millisecond instant, 0 standing for null.    *)
(***************************************************************************)
EXTENDS Integers, Sequences, FiniteSets, TLC

----------------------------------------------------------------------------
(* Bounds of the model                                                     *)

Users == {"A", "B"}            \* identities (DIDs)
Slots == {1, 2}                \* HTTP requests that can be in progress at once
Conns == {"w1", "w2"}          \* websocket objects, each used for one connection
ValueSeq == <<"v1", "v2", "v3", "v4", "v5", "v6">>   \* reaction values
Values == {ValueSeq[i] : i \in 1..Len(ValueSeq)}

ClockStart == 36               \* Date.now() when the server starts
MaxMs == 2                     \* milliseconds the clock advances in store runs
TicksPerSweep == 1             \* clock steps per heartbeat interval in socket runs
MaxSweeps == 5                 \* heartbeat intervals a socket run lasts
MaxRandom == 1                 \* crypto.randomBytes(4) draws from 0..MaxRandom
MaxMsgs == 2                   \* messages ever sent
MaxConvos == 2                 \* conversations ever created
MaxEvents == 2                 \* entries ever appended to the event log
LogLimit == 2                  \* page size of the log query (100 in the source)
MaxFrames == 1                 \* inbound frames a client sends per connection
MaxAttempts == 7               \* connection attempts made in one run
TicksPerWindow == 2            \* clock steps per AUTH_FAILURE_WINDOW
MaxWindows == 2                \* how far the clock of the limiter runs, in windows
MaxDids == 3                   \* identities asked for in one batch presence call
BatchLimit == 2              \* identities answered per batch call (100 in the source)
MaxOther == 2                \* requests of the second address per window
MaxLimit == 2                \* the largest limit a list call asks for
MaxLate == 1                 \* milliseconds watched past the end of the first window

MsgIds == 1..MaxMsgs
ConvoIds == 1..MaxConvos
RandomValues == 0..MaxRandom

----------------------------------------------------------------------------
(* Program constants                                                       *)

RandomBytes == 4
MaxReactionsPerUser == 5
UNAUTHORIZED == 4001
MAX_AUTH_FAILURES == 5
AUTH_FAILURE_WINDOW == 60000
HEARTBEAT_INTERVAL == 30000
CONNECTION_TIMEOUT == 90000
RATE_LIMIT_WINDOW == 60000
RATE_LIMIT_MAX_REQUESTS == 200

----------------------------------------------------------------------------
(* Revisions                                                               *)

RECURSIVE Base36(_)
\* Number.prototype.toString(36)
Base36(n) == IF n < 36 THEN <<n>> ELSE Base36(n \div 36) \o <<n % 36>>

RECURSIVE HexFixed(_, _)
\* Buffer.toString('hex'): two digits per byte, fixed width
HexFixed(r, w) == IF w = 0 THEN <<>> ELSE HexFixed(r \div 16, w - 1) \o <<r % 16>>

\* generateRev(): base-36 timestamp followed by the hex of 4 random bytes
generateRev(nowMs, random) == Base36(nowMs) \o HexFixed(random, 2 * RandomBytes)

\* string comparison a < b
LexLess(a, b) ==
    \E i \in 1..Len(b) :
        /\ i <= Len(a) + 1
        /\ \A j \in 1..(i - 1) : a[j] = b[j]
        /\ (i = Len(a) + 1 \/ a[i] < b[i])

NoRev == <<>>                  \* null / undefined revision or cursor

----------------------------------------------------------------------------
(* State                                                                   *)

VARIABLES
    clock,                \* Date.now(), in milliseconds
    nextMsg,              \* uuidv4() for messages: the next unused identifier
    nextConvo,            \* uuidv4() for conversations
    conversation,         \* table conversation: id -> row
    conversation_member,  \* table conversation_member: <<conversationId, memberDid>> -> row
    message,              \* table message: id -> row
    message_event,        \* table message_event, in insertion (autoincrement id) order
    message_status,       \* table message_status: <<messageId, recipientDid>> -> row
    req,                  \* the handlers in progress, one per slot
    resp,                 \* the response sent last
    client,               \* per identity: the polling client's cursor and what it received
    chat_privacy,         \* table chat_privacy: did -> row
    connections,          \* Map userDid -> Set<WebSocket>; no key is the empty set
    connectionMeta,       \* WeakMap WebSocket -> ConnectionMeta
    clients,              \* wss.clients
    readyState,           \* ws.readyState of each websocket
    sent,                 \* the frames the server sent on each websocket
    pinged,               \* the websockets whose last ping the client has not answered
    frames,               \* inbound frames received on each websocket
    nextSweep,            \* when the heartbeat interval fires next
    presence,             \* the broadcastPresence calls in progress
    user_presence,        \* table user_presence: did -> row
    authFailures,         \* the Map authFailures: address -> count, lastAttempt
    authLog,              \* history: the connection attempts made so far
    closeCode,            \* the code the server closed each websocket with, 0 if none
    cast,                 \* the sendToConversation call in progress
    typing,               \* the handleTypingIndicator call in progress
    connectionKeys,       \* connections.keys(): the identities the registry has an entry for
    lastPresence,         \* per websocket and identity: the status of the presence event received last
    rateLimitStore,       \* the Map rateLimitStore: identifier -> count, resetAt
    statusQuery           \* a GET .../status call: the rows it read and its answer

dbVars == <<conversation, conversation_member, message, message_event, message_status>>
wsVars == <<connections, connectionMeta, clients, readyState, sent, pinged, frames,
            nextSweep, presence, user_presence>>
chatVars == <<nextMsg, nextConvo, dbVars, req, resp, client, chat_privacy>>
authVars == <<authFailures, authLog, closeCode>>
pureVars == <<rateLimitStore, statusQuery>>
sideVars == <<cast, typing, connectionKeys, lastPresence, pureVars>>
rest == <<chat_privacy, wsVars, authVars, sideVars>>
vars == <<clock, nextMsg, nextConvo, conversation, conversation_member, message,
          message_event, message_status, req, resp, client, rest>>

NoConvo == [createdAt |-> 0, updatedAt |-> 0]
NoMember == [status |-> "none", lastReadRev |-> NoRev, muted |-> 0, joinedAt |-> 0]
NoMessage == [conversationId |-> 0, senderDid |-> "", text |-> "", reactions |-> <<>>,
              rev |-> NoRev, createdAt |-> 0, deletedAt |-> 0]
NoStatus == [exists |-> FALSE, deliveredAt |-> 0, readAt |-> 0]
NoPrivacy == [exists |-> FALSE, showReadReceipts |-> 1, showOnlineStatus |-> 1,
              showLastSeen |-> 1]

IdleReq == [op |-> "idle", pc |-> "idle", did |-> "", other |-> "", cid |-> 0, mid |-> 0, val |-> "",
            rev |-> NoRev, ts |-> 0, cursor |-> NoRev, convoIds |-> {}, toMark |-> {},
            seen |-> <<>>,
            seenAt |-> 0, logs |-> <<>>, out |-> NoRev, res |-> "",
            dids |-> <<>>, presences |-> <<>>, body |-> <<>>, views |-> {},
            unreadCount |-> 0]

NewClient == [cursor |-> NoRev, got |-> <<>>, convo |-> 0,
              page |-> NoRev, listed |-> <<>>, listDone |-> FALSE]

\* message.text of the request body: every message of the model has this text
MessageText == "hi"

\* a row of message_event; payload fields that an event type lacks stay empty.
\* The payload of a logCreateMessage entry embeds the message view, text
\* included; the payloads of the other types name the message by id only
Event(cid, eventType, type, rev, ts, mid, val, did, status) ==
    [conversationId |-> cid, eventType |-> eventType, type |-> type, rev |-> rev,
     createdAt |-> ts, messageId |-> mid, value |-> val, did |-> did, status |-> status,
     text |-> IF type = "logCreateMessage" THEN MessageText ELSE ""]

Free(s) == req[s].pc = "idle"
\* a request takes the lowest free slot
FreeSlot(s) == Free(s) /\ \A t \in Slots : t < s => ~Free(t)
At(s, op, pc) == req[s].op = op /\ req[s].pc = pc

\* the response of handler r: its inputs, the step it answered from, its result
Response(r, res) ==
    [IdleReq EXCEPT !.op = r.op, !.pc = r.pc, !.did = r.did, !.other = r.other,
                    !.cid = r.cid, !.mid = r.mid, !.val = r.val,
                    !.cursor = r.cursor, !.seen = r.seen,
                    !.dids = r.dids, !.presences = r.presences, !.views = r.views,
                    !.logs = r.logs, !.out = r.out, !.unreadCount = r.unreadCount,
                    !.res = res]

\* the handler in slot s goes on as r
Goto(s, r) ==
    /\ req' = [req EXCEPT ![s] = r]
    /\ UNCHANGED resp

\* res.json(...) / res.status(...).json(...): the handler in slot s ends
Respond(s, r, res) ==
    /\ req' = [req EXCEPT ![s] = IdleReq]
    /\ resp' = Response(r, res)

Mutators == {"sendMessage", "deleteMessage", "addReaction", "removeReaction",
             "readConvo", "markDelivered", "markRead"}
InProgress == {s \in Slots : ~Free(s)}
\* the log is bounded: a mutation starts only if its entry still fits
LogRoom ==
    LET appended == {i \in 1..Len(message_event) : message_event[i].createdAt >= ClockStart}
        coming == {s \in InProgress : req[s].op \in Mutators}
    IN  Cardinality(appended) + Cardinality(coming) < MaxEvents

ActiveStatus(st) == st \notin {"none", "left"}

----------------------------------------------------------------------------
(* The clock                                                               *)

TickMs ==
    /\ clock < ClockStart + MaxMs
    /\ clock' = clock + 1
    /\ UNCHANGED <<nextMsg, nextConvo, dbVars, req, resp, client, rest>>

\* now(): new Date().toISOString()
now == clock

----------------------------------------------------------------------------
(* POST /chat/convo/:id/message                                            *)

\* the membership row is looked up and its status is not looked at
SendMessage_memberMutant(s, u, c) ==
    /\ FreeSlot(s) /\ LogRoom /\ nextMsg <= MaxMsgs
    /\ LET st == conversation_member[<<c, u>>].status
           r0 == [IdleReq EXCEPT !.op = "sendMessage", !.did = u, !.cid = c]
       IN  IF st = "none"
           THEN Respond(s, r0, "404") /\ UNCHANGED nextMsg
           ELSE \E random \in RandomValues :
                  /\ Goto(s, [r0 EXCEPT !.pc = "insertMessage", !.mid = nextMsg,
                                         !.rev = generateRev(clock, random), !.ts = now])
                  /\ nextMsg' = nextMsg + 1
    /\ UNCHANGED <<clock, nextConvo, dbVars, client, rest>>

SendMessage_member(s, u, c) ==
    /\ FreeSlot(s) /\ LogRoom /\ nextMsg <= MaxMsgs
    /\ LET st == conversation_member[<<c, u>>].status
           r0 == [IdleReq EXCEPT !.op = "sendMessage", !.did = u, !.cid = c]
       IN  IF st = "none"
           THEN Respond(s, r0, "404") /\ UNCHANGED nextMsg
           ELSE IF st = "left"
           THEN Respond(s, r0, "403") /\ UNCHANGED nextMsg
           ELSE \E random \in RandomValues :
                  /\ Goto(s, [r0 EXCEPT !.pc = "insertMessage", !.mid = nextMsg,
                                         !.rev = generateRev(clock, random), !.ts = now])
                  /\ nextMsg' = nextMsg + 1
    /\ UNCHANGED <<clock, nextConvo, dbVars, client, rest>>

SendMessage_insertMessage(s) ==
    /\ At(s, "sendMessage", "insertMessage")
    /\ message' = [message EXCEPT ![req[s].mid] =
          [conversationId |-> req[s].cid, senderDid |-> req[s].did, text |-> MessageText,
           reactions |-> <<>>, rev |-> req[s].rev, createdAt |-> req[s].ts,
           deletedAt |-> 0]]
    /\ Goto(s, [req[s] EXCEPT !.pc = "updateConvo"])
    /\ UNCHANGED <<clock, nextMsg, nextConvo, conversation, conversation_member,
                   message_event, message_status, client, rest>>

SendMessage_updateConvo(s) ==
    /\ At(s, "sendMessage", "updateConvo")
    /\ conversation' = [conversation EXCEPT ![req[s].cid].updatedAt = req[s].ts]
    /\ Goto(s, [req[s] EXCEPT !.pc = "insertEvent"])
    /\ UNCHANGED <<clock, nextMsg, nextConvo, conversation_member, message,
                   message_event, message_status, client, rest>>

SendMessage_insertEvent(s) ==
    /\ At(s, "sendMessage", "insertEvent")
    /\ message_event' = Append(message_event,
          Event(req[s].cid, "message", "logCreateMessage", req[s].rev, req[s].ts,
                req[s].mid, "", req[s].did, ""))
    /\ Goto(s, [req[s] EXCEPT !.pc = "updateMember"])
    /\ UNCHANGED <<clock, nextMsg, nextConvo, conversation, conversation_member,
                   message, message_status, client, rest>>

SendMessage_updateMember(s) ==
    /\ At(s, "sendMessage", "updateMember")
    /\ LET k == <<req[s].cid, req[s].did>>
       IN  conversation_member' =
             IF conversation_member[k].status = "none" THEN conversation_member
             ELSE [conversation_member EXCEPT ![k].lastReadRev = req[s].rev]
    /\ Respond(s, req[s], "ok")
    /\ UNCHANGED <<clock, nextMsg, nextConvo, conversation, message, message_event,
                   message_status, client, rest>>

SendMessage(U, C) ==
    \/ \E s \in Slots, u \in U, c \in C : SendMessage_member(s, u, c)
    \/ \E s \in Slots : SendMessage_insertMessage(s)
    \/ \E s \in Slots : SendMessage_updateConvo(s)
    \/ \E s \in Slots : SendMessage_insertEvent(s)
    \/ \E s \in Slots : SendMessage_updateMember(s)

----------------------------------------------------------------------------
(* DELETE /chat/convo/:convoId/message/:messageId                          *)

MessageIn(m, c) == message[m].conversationId # 0 /\ message[m].conversationId = c

DeleteMessage_select(s, u, c, m) ==
    /\ FreeSlot(s) /\ LogRoom
    /\ LET r0 == [IdleReq EXCEPT !.op = "deleteMessage", !.did = u, !.cid = c, !.mid = m]
       IN  IF ~MessageIn(m, c) THEN Respond(s, r0, "404")
           ELSE IF message[m].senderDid # u THEN Respond(s, r0, "403")
           ELSE \E random \in RandomValues :
                  Goto(s, [r0 EXCEPT !.pc = "updateMessage", !.ts = now,
                                     !.rev = generateRev(clock, random)])
    /\ UNCHANGED <<clock, nextMsg, nextConvo, dbVars, client, rest>>

DeleteMessage_updateMessage(s) ==
    /\ At(s, "deleteMessage", "updateMessage")
    /\ message' = [message EXCEPT ![req[s].mid].deletedAt = req[s].ts]
    /\ Goto(s, [req[s] EXCEPT !.pc = "insertEvent"])
    /\ UNCHANGED <<clock, nextMsg, nextConvo, conversation, conversation_member,
                   message_event, message_status, client, rest>>

\* the entry of the deleted message is rewritten in place
DeleteMessage_insertEventMutant(s) ==
    /\ At(s, "deleteMessage", "insertEvent")
    /\ message_event' =
          [i \in 1..Len(message_event) |->
              IF message_event[i].messageId = req[s].mid
                 /\ message_event[i].type = "logCreateMessage"
              THEN Event(req[s].cid, "delete", "logDeleteMessage", req[s].rev, req[s].ts,
                         req[s].mid, "", req[s].did, "")
              ELSE message_event[i]]
    /\ Respond(s, req[s], "ok")
    /\ UNCHANGED <<clock, nextMsg, nextConvo, conversation, conversation_member,
                   message, message_status, client, rest>>

DeleteMessage_insertEvent(s) ==
    /\ At(s, "deleteMessage", "insertEvent")
    /\ message_event' = Append(message_event,
          Event(req[s].cid, "delete", "logDeleteMessage", req[s].rev, req[s].ts,
                req[s].mid, "", req[s].did, ""))
    /\ Respond(s, req[s], "ok")
    /\ UNCHANGED <<clock, nextMsg, nextConvo, conversation, conversation_member,
                   message, message_status, client, rest>>

DeleteMessage(U, C, M) ==
    \/ \E s \in Slots, u \in U, c \in C, m \in M : DeleteMessage_select(s, u, c, m)
    \/ \E s \in Slots : DeleteMessage_updateMessage(s)
    \/ \E s \in Slots : DeleteMessage_insertEvent(s)

----------------------------------------------------------------------------
(* POST and DELETE /chat/convo/:convoId/message/:messageId/reaction        *)

\* a reaction {value, sender: {did}} is the pair <<value, did>>
\* the lookup never finds the pair
existingIndexMutant(reactions, v, u) == -1

\* reactions.findIndex(r => r.sender.did === userDid && r.value === value)
existingIndex(reactions, v, u) ==
    LET found == {i \in 1..Len(reactions) : reactions[i][2] = u /\ reactions[i][1] = v}
    IN  IF found = {} THEN -1
        ELSE (CHOOSE i \in found : \A j \in found : i <= j) - 1

\* reactions.filter(r => r.sender.did === userDid)
userReactions(reactions, u) == SelectSeq(reactions, LAMBDA r : r[2] = u)
\* reactions.filter(r => !(r.sender.did === userDid && r.value === value))
Without(reactions, v, u) == SelectSeq(reactions, LAMBDA r : r # <<v, u>>)

\* shared by both handlers: the membership check
Reaction_member(s, op, u, c, m, v) ==
    /\ FreeSlot(s) /\ LogRoom
    /\ LET r0 == [IdleReq EXCEPT !.op = op, !.did = u, !.cid = c, !.mid = m, !.val = v]
       IN  IF ~ActiveStatus(conversation_member[<<c, u>>].status)
           THEN Respond(s, r0, "403")
           ELSE Goto(s, [r0 EXCEPT !.pc = "getMessage"])
    /\ UNCHANGED <<clock, nextMsg, nextConvo, dbVars, client, rest>>

\* the cap is tested one too high
AtCapMutant(reactions, u) == Len(userReactions(reactions, u)) > MaxReactionsPerUser

\* userReactions.length >= 5
AtCap(reactions, u) == Len(userReactions(reactions, u)) >= MaxReactionsPerUser

AddReaction_getMessage(s) ==
    /\ At(s, "addReaction", "getMessage")
    /\ LET r == req[s]
           reactions == message[r.mid].reactions
       IN  IF ~MessageIn(r.mid, r.cid) \/ message[r.mid].deletedAt # 0
           THEN Respond(s, r, "404")
           ELSE IF existingIndex(reactions, r.val, r.did) >= 0
           THEN Respond(s, [r EXCEPT !.seen = reactions], "ok")
           ELSE IF AtCap(reactions, r.did) THEN Respond(s, r, "400")
           ELSE Goto(s, [r EXCEPT !.pc = "updateMessage", !.ts = now,
                                  !.seen = Append(reactions, <<r.val, r.did>>)])
    /\ UNCHANGED <<clock, nextMsg, nextConvo, dbVars, client, rest>>

RemoveReaction_getMessage(s) ==
    /\ At(s, "removeReaction", "getMessage")
    /\ LET r == req[s]
           reactions == message[r.mid].reactions
       IN  IF ~MessageIn(r.mid, r.cid) \/ message[r.mid].deletedAt # 0
           THEN Respond(s, r, "404")
           ELSE IF Len(Without(reactions, r.val, r.did)) = Len(reactions)
           THEN Respond(s, r, "ok")
           ELSE Goto(s, [r EXCEPT !.pc = "updateMessage", !.ts = now,
                                  !.seen = Without(reactions, r.val, r.did)])
    /\ UNCHANGED <<clock, nextMsg, nextConvo, dbVars, client, rest>>

\* UPDATE message SET reactions = JSON.stringify(reactions); then generateRev()
Reaction_updateMessage(s) ==
    /\ req[s].op \in {"addReaction", "removeReaction"} /\ req[s].pc = "updateMessage"
    /\ message' = [message EXCEPT ![req[s].mid].reactions = req[s].seen]
    /\ \E random \in RandomValues :
          Goto(s, [req[s] EXCEPT !.pc = "insertEvent", !.seen = <<>>,
                                 !.rev = generateRev(clock, random)])
    /\ UNCHANGED <<clock, nextMsg, nextConvo, conversation, conversation_member,
                   message_event, message_status, client, rest>>

AddReaction_insertEvent(s) ==
    /\ At(s, "addReaction", "insertEvent")
    /\ message_event' = Append(message_event,
          Event(req[s].cid, "reaction", "logAddReaction", req[s].rev, req[s].ts,
                req[s].mid, req[s].val, req[s].did, ""))
    /\ Goto(s, [req[s] EXCEPT !.pc = "reselect"])
    /\ UNCHANGED <<clock, nextMsg, nextConvo, conversation, conversation_member,
                   message, message_status, client, rest>>

AddReaction_reselect(s) ==
    /\ At(s, "addReaction", "reselect")
    /\ Respond(s, [req[s] EXCEPT !.seen = message[req[s].mid].reactions], "ok")
    /\ UNCHANGED <<clock, nextMsg, nextConvo, dbVars, client, rest>>

RemoveReaction_insertEvent(s) ==
    /\ At(s, "removeReaction", "insertEvent")
    /\ message_event' = Append(message_event,
          Event(req[s].cid, "reaction", "logRemoveReaction", req[s].rev, req[s].ts,
                req[s].mid, req[s].val, req[s].did, ""))
    /\ Respond(s, req[s], "ok")
    /\ UNCHANGED <<clock, nextMsg, nextConvo, conversation, conversation_member,
                   message, message_status, client, rest>>

Reactions(U, C, M, V) ==
    \/ \E s \in Slots, u \in U, c \in C, m \in M, v \in V :
          Reaction_member(s, "addReaction", u, c, m, v)
    \/ \E s \in Slots, u \in U, c \in C, m \in M, v \in V :
          Reaction_member(s, "removeReaction", u, c, m, v)
    \/ \E s \in Slots : AddReaction_getMessage(s)
    \/ \E s \in Slots : RemoveReaction_getMessage(s)
    \/ \E s \in Slots : Reaction_updateMessage(s)
    \/ \E s \in Slots : AddReaction_insertEvent(s)
    \/ \E s \in Slots : AddReaction_reselect(s)
    \/ \E s \in Slots : RemoveReaction_insertEvent(s)

----------------------------------------------------------------------------
(* POST /chat/convo/:id/read: mark the conversation read                   *)

\* SELECT rev FROM message WHERE conversationId = c ORDER BY rev DESC LIMIT 1
LatestRevs(c) ==
    {message[m].rev : m \in {x \in MsgIds :
        /\ MessageIn(x, c)
        /\ \A y \in MsgIds : MessageIn(y, c) => ~LexLess(message[x].rev, message[y].rev)}}

ReadConvo_latest(s, u, c) ==
    /\ FreeSlot(s) /\ LogRoom
    /\ LET r0 == [IdleReq EXCEPT !.op = "readConvo", !.did = u, !.cid = c]
       IN  IF LatestRevs(c) = {} THEN Respond(s, r0, "ok")
           ELSE \E latest \in LatestRevs(c) :
                  Goto(s, [r0 EXCEPT !.pc = "updateMember", !.cursor = latest])
    /\ UNCHANGED <<clock, nextMsg, nextConvo, dbVars, client, rest>>

ReadConvo_updateMember(s) ==
    /\ At(s, "readConvo", "updateMember")
    /\ LET k == <<req[s].cid, req[s].did>>
       IN  conversation_member' =
             IF conversation_member[k].status = "none" THEN conversation_member
             ELSE [conversation_member EXCEPT ![k].lastReadRev = req[s].cursor]
    /\ \E random \in RandomValues :
          Goto(s, [req[s] EXCEPT !.pc = "insertEvent", !.rev = generateRev(clock, random)])
    /\ UNCHANGED <<clock, nextMsg, nextConvo, conversation, message, message_event,
                   message_status, client, rest>>

ReadConvo_insertEvent(s) ==
    /\ At(s, "readConvo", "insertEvent")
    /\ message_event' = Append(message_event,
          Event(req[s].cid, "read", "logReadConvo", req[s].rev, now, 0, "", "", ""))
    /\ Respond(s, req[s], "ok")
    /\ UNCHANGED <<clock, nextMsg, nextConvo, conversation, conversation_member,
                   message, message_status, client, rest>>

ReadConvo(U, C) ==
    \/ \E s \in Slots, u \in U, c \in C : ReadConvo_latest(s, u, c)
    \/ \E s \in Slots : ReadConvo_updateMember(s)
    \/ \E s \in Slots : ReadConvo_insertEvent(s)

----------------------------------------------------------------------------
(* POST .../message/:messageId/delivered and .../read                      *)

\* markRead only: the caller's privacy row, read before the membership
ReadReceiptsOff(u) == chat_privacy[u].exists /\ chat_privacy[u].showReadReceipts = 0

\* const timestamp = now() on entry, then the privacy and membership checks
Status_member(s, op, u, c, m) ==
    /\ FreeSlot(s) /\ LogRoom
    /\ LET r0 == [IdleReq EXCEPT !.op = op, !.did = u, !.cid = c, !.mid = m, !.ts = now]
       IN  IF op = "markRead" /\ ReadReceiptsOff(u) THEN Respond(s, r0, "ok")
           ELSE IF ~ActiveStatus(conversation_member[<<c, u>>].status)
           THEN Respond(s, r0, "403")
           ELSE Goto(s, [r0 EXCEPT !.pc = "getMessage"])
    /\ UNCHANGED <<clock, nextMsg, nextConvo, dbVars, client, rest>>

\* the handler does not compare the caller with the message's sender
Status_getMessageMutant(s) ==
    /\ req[s].op \in {"markDelivered", "markRead"} /\ req[s].pc = "getMessage"
    /\ LET r == req[s]
       IN  IF ~MessageIn(r.mid, r.cid) THEN Respond(s, r, "404")
           ELSE Goto(s, [r EXCEPT !.pc = IF r.op = "markRead" THEN "existingStatus"
                                         ELSE "upsert"])
    /\ UNCHANGED <<clock, nextMsg, nextConvo, dbVars, client, rest>>

\* SELECT id, senderDid FROM message; 404 if absent, 400 for the sender
Status_getMessage(s) ==
    /\ req[s].op \in {"markDelivered", "markRead"} /\ req[s].pc = "getMessage"
    /\ LET r == req[s]
       IN  IF ~MessageIn(r.mid, r.cid) THEN Respond(s, r, "404")
           ELSE IF message[r.mid].senderDid = r.did THEN Respond(s, r, "400")
           ELSE Goto(s, [r EXCEPT !.pc = IF r.op = "markRead" THEN "existingStatus"
                                         ELSE "upsert"])
    /\ UNCHANGED <<clock, nextMsg, nextConvo, dbVars, client, rest>>

\* INSERT ... ON CONFLICT (messageId, recipientDid) DO UPDATE SET deliveredAt
MarkDelivered_upsert(s) ==
    /\ At(s, "markDelivered", "upsert")
    /\ LET k == <<req[s].mid, req[s].did>>
       IN  message_status' =
             IF message_status[k].exists
             THEN [message_status EXCEPT ![k].deliveredAt = req[s].ts]
             ELSE [message_status EXCEPT ![k] =
                     [exists |-> TRUE, deliveredAt |-> req[s].ts, readAt |-> 0]]
    /\ \E random \in RandomValues :
          Goto(s, [req[s] EXCEPT !.pc = "insertEvent", !.rev = generateRev(clock, random)])
    /\ UNCHANGED <<clock, nextMsg, nextConvo, conversation, conversation_member,
                   message, message_event, client, rest>>

\* SELECT deliveredAt FROM message_status: undefined and null both read as 0
MarkRead_existingStatus(s) ==
    /\ At(s, "markRead", "existingStatus")
    /\ Goto(s, [req[s] EXCEPT !.pc = "upsert",
                              !.seenAt = message_status[<<req[s].mid, req[s].did>>].deliveredAt])
    /\ UNCHANGED <<clock, nextMsg, nextConvo, dbVars, client, rest>>

\* deliveredAt: existingStatus?.deliveredAt || timestamp
KeptDeliveredAt(seenAt, timestamp) == IF seenAt # 0 THEN seenAt ELSE timestamp

MarkRead_upsert(s) ==
    /\ At(s, "markRead", "upsert")
    /\ LET k == <<req[s].mid, req[s].did>>
       IN  message_status' =
             IF message_status[k].exists
             THEN [message_status EXCEPT
                     ![k].deliveredAt = KeptDeliveredAt(req[s].seenAt, req[s].ts),
                     ![k].readAt = req[s].ts]
             ELSE [message_status EXCEPT ![k] =
                     [exists |-> TRUE, deliveredAt |-> req[s].ts, readAt |-> req[s].ts]]
    /\ \E random \in RandomValues :
          Goto(s, [req[s] EXCEPT !.pc = "insertEvent", !.seenAt = 0,
                                 !.rev = generateRev(clock, random)])
    /\ UNCHANGED <<clock, nextMsg, nextConvo, conversation, conversation_member,
                   message, message_event, client, rest>>

Status_insertEvent(s) ==
    /\ req[s].op \in {"markDelivered", "markRead"} /\ req[s].pc = "insertEvent"
    /\ message_event' = Append(message_event,
          Event(req[s].cid, "status", "messageStatusUpdate", req[s].rev, req[s].ts,
                req[s].mid, "", req[s].did,
                IF req[s].op = "markRead" THEN "read" ELSE "delivered"))
    /\ Respond(s, req[s], "ok")
    /\ UNCHANGED <<clock, nextMsg, nextConvo, conversation, conversation_member,
                   message, message_status, client, rest>>

MessageStatus(U, C, M) ==
    \/ \E s \in Slots, u \in U, c \in C, m \in M :
          Status_member(s, "markDelivered", u, c, m)
    \/ \E s \in Slots, u \in U, c \in C, m \in M :
          Status_member(s, "markRead", u, c, m)
    \/ \E s \in Slots : Status_getMessage(s)
    \/ \E s \in Slots : MarkDelivered_upsert(s)
    \/ \E s \in Slots : MarkRead_existingStatus(s)
    \/ \E s \in Slots : MarkRead_upsert(s)
    \/ \E s \in Slots : Status_insertEvent(s)

----------------------------------------------------------------------------
(* GET /chat/convo/:convoId/message/:messageId/status: the overall status   *)
(* of a message, derived from its message_status rows                      *)

\* the members of the message's conversation other than its sender
Recipients == {"r1", "r2", "r3"}
\* a message_status row as markDelivered leaves it, and as markRead does
DeliveredRow == [deliveredAt |-> ClockStart, readAt |-> 0]
ReadRow == [deliveredAt |-> ClockStart, readAt |-> ClockStart]

NoQuery == [recipients |-> {}, statuses |-> <<>>, status |-> ""]

\* the conversations and rows a call can find: every row belongs to a recipient
Queries ==
    UNION {{[NoQuery EXCEPT !.recipients = R, !.statuses = f] :
               f \in UNION {[H -> {DeliveredRow, ReadRow}] : H \in SUBSET R}} :
           R \in SUBSET Recipients \ {{}}}

\* let overallStatus = 'sent'; if (statuses.length > 0) { allDelivered, allRead }
overallStatus(statuses) ==
    LET allDelivered == \A r \in DOMAIN statuses : statuses[r].deliveredAt # 0
        allRead == \A r \in DOMAIN statuses : statuses[r].readAt # 0
    IN  IF DOMAIN statuses = {} THEN "sent"
        ELSE IF allRead THEN "read"
        ELSE IF allDelivered THEN "delivered"
        ELSE "sent"

\* SELECT * FROM message_status WHERE messageId = ...; res.json({ status })
GetStatus ==
    /\ statusQuery.status = ""
    /\ statusQuery' = [statusQuery EXCEPT !.status = overallStatus(statusQuery.statuses)]
    /\ UNCHANGED <<clock, chatVars, wsVars, authVars, cast, typing,
                   connectionKeys, lastPresence, rateLimitStore>>

----------------------------------------------------------------------------
(* GET /chat/convo/:id/messages: the fetched messages of other senders    *)
(* are marked delivered, one insert each, conflicts ignored                *)

GetMessages_member(s, u, c) ==
    /\ FreeSlot(s)
    /\ LET r0 == [IdleReq EXCEPT !.op = "getMessages", !.did = u, !.cid = c]
       IN  IF ~ActiveStatus(conversation_member[<<c, u>>].status)
           THEN Respond(s, r0, "404")
           ELSE Goto(s, [r0 EXCEPT !.pc = "messages"])
    /\ UNCHANGED <<clock, nextMsg, nextConvo, dbVars, client, rest>>

\* the view of a stored message: a deletedMessageView has neither text nor
\* reactions
MessageViewOf(m) ==
    IF message[m].deletedAt # 0
    THEN [id |-> m, deleted |-> TRUE, rev |-> message[m].rev, text |-> "",
          reactions |-> <<>>, sender |-> message[m].senderDid,
          sentAt |-> message[m].createdAt]
    ELSE [id |-> m, deleted |-> FALSE, rev |-> message[m].rev, text |-> message[m].text,
          reactions |-> message[m].reactions, sender |-> message[m].senderDid,
          sentAt |-> message[m].createdAt]

GetMessages_messages(s) ==
    /\ At(s, "getMessages", "messages")
    /\ LET r == [req[s] EXCEPT !.views =
                    {MessageViewOf(m) : m \in {k \in MsgIds : MessageIn(k, req[s].cid)}}]
           messagesToMarkDelivered ==
               {m \in MsgIds : /\ MessageIn(m, r.cid)
                               /\ message[m].senderDid # r.did
                               /\ message[m].deletedAt = 0}
       IN  IF messagesToMarkDelivered = {} THEN Respond(s, r, "ok")
           ELSE Goto(s, [r EXCEPT !.pc = "markDelivered", !.ts = now,
                                  !.toMark = messagesToMarkDelivered])
    /\ UNCHANGED <<clock, nextMsg, nextConvo, dbVars, client, rest>>

\* INSERT ... ON CONFLICT DO NOTHING, in any order (Promise.all)
GetMessages_markDelivered(s) ==
    /\ At(s, "getMessages", "markDelivered")
    /\ \E m \in req[s].toMark :
          /\ message_status' =
                IF message_status[<<m, req[s].did>>].exists THEN message_status
                ELSE [message_status EXCEPT ![<<m, req[s].did>>] =
                        [exists |-> TRUE, deliveredAt |-> req[s].ts, readAt |-> 0]]
          /\ IF req[s].toMark = {m} THEN Respond(s, req[s], "ok")
             ELSE Goto(s, [req[s] EXCEPT !.toMark = req[s].toMark \ {m}])
    /\ UNCHANGED <<clock, nextMsg, nextConvo, conversation, conversation_member,
                   message, message_event, client, rest>>

GetMessages(U, C) ==
    \/ \E s \in Slots, u \in U, c \in C : GetMessages_member(s, u, c)
    \/ \E s \in Slots : GetMessages_messages(s)
    \/ \E s \in Slots : GetMessages_markDelivered(s)

----------------------------------------------------------------------------
(* A store statement fails: the handler's catch answers 500                *)

StorageFail(s) ==
    /\ s \in InProgress
    /\ ~At(s, "getMessages", "markDelivered")
    /\ Respond(s, req[s], "500")
    /\ UNCHANGED <<clock, nextMsg, nextConvo, dbVars, client, rest>>

----------------------------------------------------------------------------
(* GET /chat/convo/log                                                     *)

EventRev(i) == message_event[i].rev

\* WHERE conversationId IN convoIds [AND rev > cursor]; a falsy cursor adds no filter
LogMatches(convoIds, cursor) ==
    {i \in 1..Len(message_event) :
        /\ message_event[i].conversationId \in convoIds
        /\ (cursor # NoRev => LexLess(cursor, EventRev(i)))}

RECURSIVE OrderByRev(_)
\* ORDER BY rev ASC: every order the store may return (rows of equal rev in any order)
OrderByRev(S) ==
    IF S = {} THEN {<<>>}
    ELSE UNION {{<<m>> \o q : q \in OrderByRev(S \ {m})} :
                 m \in {x \in S : \A y \in S : ~LexLess(EventRev(y), EventRev(x))}}

Limit(q, n) == SubSeq(q, 1, IF Len(q) < n THEN Len(q) ELSE n)

\* the caller's client is sequential: one poll at a time, with its last cursor
SyncLog_members(s, u) ==
    /\ FreeSlot(s)
    /\ \A t \in InProgress : ~(req[t].op = "syncLog" /\ req[t].did = u)
    /\ LET convoIds == {c \in ConvoIds : ActiveStatus(conversation_member[<<c, u>>].status)}
           r0 == [IdleReq EXCEPT !.op = "syncLog", !.did = u, !.cursor = client[u].cursor]
       IN  IF convoIds = {}
           THEN /\ Respond(s, r0, "ok")
                /\ client' = [client EXCEPT ![u].cursor = NoRev]
           ELSE /\ Goto(s, [r0 EXCEPT !.pc = "events", !.convoIds = convoIds])
                /\ UNCHANGED client
    /\ UNCHANGED <<clock, nextMsg, nextConvo, dbVars, rest>>

SyncLog_events(s) ==
    /\ At(s, "syncLog", "events")
    /\ \E q \in OrderByRev(LogMatches(req[s].convoIds, req[s].cursor)) :
          LET events == Limit(q, LogLimit)
              newCursor == IF Len(events) > 0 THEN EventRev(events[Len(events)])
                           ELSE req[s].cursor
              u == req[s].did
          IN  /\ Respond(s, [req[s] EXCEPT !.logs = events, !.out = newCursor], "ok")
              /\ client' = [client EXCEPT ![u].cursor = newCursor,
                                          ![u].got = client[u].got \o events]
    /\ UNCHANGED <<clock, nextMsg, nextConvo, dbVars, rest>>

SyncLog(U) ==
    \/ \E s \in Slots, u \in U : SyncLog_members(s, u)
    \/ \E s \in Slots : SyncLog_events(s)

----------------------------------------------------------------------------
(* POST /chat/convo/:id/accept and /leave: one UPDATE each                 *)

SetStatus(u, c, status) ==
    IF conversation_member[<<c, u>>].status = "none" THEN conversation_member
    ELSE [conversation_member EXCEPT ![<<c, u>>].status = status]

Accept(u, c) ==
    /\ conversation_member' = SetStatus(u, c, "accepted")
    /\ UNCHANGED <<clock, nextMsg, nextConvo, conversation, message, message_event,
                   message_status, req, resp, client, rest>>

Leave(u, c) ==
    /\ conversation_member' = SetStatus(u, c, "left")
    /\ UNCHANGED <<clock, nextMsg, nextConvo, conversation, message, message_event,
                   message_status, req, resp, client, rest>>

\* POST /chat/convo/:id/mute (muted = 1) and /unmute (muted = 0)
Mute(u, c, muted) ==
    /\ conversation_member' =
          IF conversation_member[<<c, u>>].status = "none" THEN conversation_member
          ELSE [conversation_member EXCEPT ![<<c, u>>].muted = muted]
    /\ UNCHANGED <<clock, nextMsg, nextConvo, conversation, message, message_event,
                   message_status, req, resp, client, rest>>

\* the caller sends leave while no other call is being handled
LeaveQuiet(u, c) == InProgress = {} /\ Leave(u, c)

----------------------------------------------------------------------------
(* POST /chat/convo/getOrCreate, for members = [other], other # me         *)

\* the join asks for accepted memberships only
SharedConvosMutant(a, b) ==
    {c \in ConvoIds : /\ conversation_member[<<c, a>>].status = "accepted"
                      /\ conversation_member[<<c, b>>].status = "accepted"}

\* conversations in which both identities hold a non-left membership
SharedConvos(a, b) ==
    {c \in ConvoIds : /\ ActiveStatus(conversation_member[<<c, a>>].status)
                      /\ ActiveStatus(conversation_member[<<c, b>>].status)}

ActiveCount(c) ==
    Cardinality({m \in Users : ActiveStatus(conversation_member[<<c, m>>].status)})

RECURSIVE Orders(_)
\* the orders in which a query without ORDER BY may return the rows S
Orders(S) ==
    IF S = {} THEN {<<>>}
    ELSE UNION {{<<m>> \o q : q \in Orders(S \ {m})} : m \in S}

\* const convoId = uuidv4(); const timestamp = now()
CreateConvo(s, r) ==
    /\ Goto(s, [r EXCEPT !.pc = "insertConvo", !.cid = nextConvo, !.ts = now, !.seen = <<>>])
    /\ nextConvo' = nextConvo + 1

\* conversations are bounded: a call starts only if one more still fits
ConvoRoom ==
    nextConvo + Cardinality({s \in InProgress : At(s, "getOrCreate", "count")}) <= MaxConvos

GetOrCreate_find(s, u, o) ==
    /\ FreeSlot(s) /\ u # o /\ ConvoRoom
    /\ LET r0 == [IdleReq EXCEPT !.op = "getOrCreate", !.did = u, !.other = o]
       IN  IF SharedConvos(u, o) = {}
           THEN CreateConvo(s, r0)
           ELSE /\ \E q \in Orders(SharedConvos(u, o)) :
                      Goto(s, [r0 EXCEPT !.pc = "count", !.seen = q])
                /\ UNCHANGED nextConvo
    /\ UNCHANGED <<clock, nextMsg, dbVars, client, rest>>

GetOrCreate_count(s) ==
    /\ At(s, "getOrCreate", "count")
    /\ LET c == Head(req[s].seen)
       IN  IF ActiveCount(c) = 2
           THEN Goto(s, [req[s] EXCEPT !.pc = "fetch", !.cid = c, !.seen = <<>>])
                /\ UNCHANGED nextConvo
           ELSE IF Len(req[s].seen) > 1
           THEN Goto(s, [req[s] EXCEPT !.seen = Tail(req[s].seen)]) /\ UNCHANGED nextConvo
           ELSE CreateConvo(s, req[s])
    /\ UNCHANGED <<clock, nextMsg, dbVars, client, rest>>

\* fetch of GET /chat/convo/:id as the caller; its body is relayed
GetOrCreate_fetch(s) ==
    /\ At(s, "getOrCreate", "fetch")
    /\ IF ActiveStatus(conversation_member[<<req[s].cid, req[s].did>>].status)
       THEN /\ Respond(s, req[s], "ok")
            /\ client' = [client EXCEPT ![req[s].did].convo = req[s].cid]
       ELSE /\ Respond(s, req[s], "404")
            /\ UNCHANGED client
    /\ UNCHANGED <<clock, nextMsg, nextConvo, dbVars, rest>>

GetOrCreate_insertConvo(s) ==
    /\ At(s, "getOrCreate", "insertConvo")
    /\ conversation' = [conversation EXCEPT ![req[s].cid] =
          [createdAt |-> req[s].ts, updatedAt |-> req[s].ts]]
    /\ Goto(s, [req[s] EXCEPT !.pc = "insertMember", !.seen = <<req[s].did, req[s].other>>])
    /\ UNCHANGED <<clock, nextMsg, nextConvo, conversation_member, message,
                   message_event, message_status, client, rest>>

\* for (const memberDid of allMembers) insert; allMembers = [userDid, other]
GetOrCreate_insertMember(s) ==
    /\ At(s, "getOrCreate", "insertMember")
    /\ LET memberDid == Head(req[s].seen)
       IN  conversation_member' = [conversation_member EXCEPT ![<<req[s].cid, memberDid>>] =
              [status |-> IF memberDid = req[s].did THEN "accepted" ELSE "request",
               lastReadRev |-> NoRev, muted |-> 0, joinedAt |-> req[s].ts]]
    /\ Goto(s, [req[s] EXCEPT !.seen = Tail(req[s].seen),
                              !.pc = IF Len(req[s].seen) > 1 THEN "insertMember"
                                     ELSE "selectMembers"])
    /\ UNCHANGED <<clock, nextMsg, nextConvo, conversation, message, message_event,
                   message_status, client, rest>>

GetOrCreate_selectMembers(s) ==
    /\ At(s, "getOrCreate", "selectMembers")
    /\ Respond(s, req[s], "ok")
    /\ client' = [client EXCEPT ![req[s].did].convo = req[s].cid]
    /\ UNCHANGED <<clock, nextMsg, nextConvo, dbVars, rest>>

GetOrCreate ==
    \/ \E s \in Slots, u \in Users, o \in Users : GetOrCreate_find(s, u, o)
    \/ \E s \in Slots : GetOrCreate_count(s)
    \/ \E s \in Slots : GetOrCreate_fetch(s)
    \/ \E s \in Slots : GetOrCreate_insertConvo(s)
    \/ \E s \in Slots : GetOrCreate_insertMember(s)
    \/ \E s \in Slots : GetOrCreate_selectMembers(s)

----------------------------------------------------------------------------
(* GET /chat/convo/:id: the conversation as its member sees it             *)

\* the count is made even when the member has read nothing yet
unreadCountMutant(c, lastReadRev) ==
    Cardinality({m \in MsgIds : /\ MessageIn(m, c)
                                /\ message[m].deletedAt = 0
                                /\ lastReadRev = NoRev \/ LexLess(lastReadRev, message[m].rev)})

\* SELECT count(id) FROM message WHERE conversationId = c AND deletedAt IS NULL
\* [AND rev > lastReadRev]; unreadCount = lastReadRev ? count : 0
unreadCount(c, lastReadRev) ==
    IF lastReadRev = NoRev THEN 0
    ELSE Cardinality({m \in MsgIds : /\ MessageIn(m, c)
                                     /\ message[m].deletedAt = 0
                                     /\ LexLess(lastReadRev, message[m].rev)})

\* SELECT * FROM conversation_member WHERE ... AND status != 'left'
GetConvo_member(s, u, c) ==
    /\ FreeSlot(s)
    /\ LET r0 == [IdleReq EXCEPT !.op = "getConvo", !.did = u, !.cid = c]
       IN  IF ~ActiveStatus(conversation_member[<<c, u>>].status)
           THEN Respond(s, r0, "404")
           ELSE Goto(s, [r0 EXCEPT !.pc = "members",
                                   !.cursor = conversation_member[<<c, u>>].lastReadRev])
    /\ UNCHANGED <<clock, nextMsg, nextConvo, dbVars, client, rest>>

\* the members, then the last message, are selected
GetConvo_members(s) ==
    /\ req[s].op = "getConvo" /\ req[s].pc \in {"members", "lastMessage"}
    /\ Goto(s, [req[s] EXCEPT !.pc = IF @ = "members" THEN "lastMessage" ELSE "unread"])
    /\ UNCHANGED <<clock, nextMsg, nextConvo, dbVars, client, rest>>

\* the unread messages are counted and res.json({ convo }) is sent
GetConvo_unread(s) ==
    /\ At(s, "getConvo", "unread")
    /\ Respond(s, [req[s] EXCEPT !.unreadCount = unreadCount(req[s].cid, req[s].cursor)],
               "ok")
    /\ UNCHANGED <<clock, nextMsg, nextConvo, dbVars, client, rest>>

GetConvo(U, C) ==
    \/ \E s \in Slots, u \in U, c \in C : GetConvo_member(s, u, c)
    \/ \E s \in Slots : GetConvo_members(s)
    \/ \E s \in Slots : GetConvo_unread(s)

----------------------------------------------------------------------------
(* GET /chat/convo/list, called page by page with the cursor returned      *)

\* Math.min(parseInt(req.query.limit) || 20, 100)
ListLimit(q) == IF q = 0 THEN 20 ELSE IF q > 100 THEN 100 ELSE q

\* ORDER BY conversation.updatedAt DESC: rows of equal time come in any order
Descending(q) ==
    \A i \in 1..Len(q), j \in 1..Len(q) :
       i < j => conversation[q[i]].updatedAt >= conversation[q[j]].updatedAt

\* WHERE memberDid = userDid AND status != 'left' [AND updatedAt < cursor]
ListRows(u, cursor) ==
    {c \in ConvoIds :
        /\ conversation[c] # NoConvo
        /\ conversation_member[<<c, u>>].status \notin {"none", "left"}
        /\ cursor = NoRev \/ conversation[c].updatedAt < cursor[1]}

\* the client asks for its next page; the select returns limit + 1 rows at most
ListConvos_select(s, u, q) ==
    /\ FreeSlot(s)
    /\ ~client[u].listDone
    /\ \A t \in Slots : ~(req[t].op = "listConvos" /\ req[t].did = u)
    /\ LET cursor == client[u].page
           limit == ListLimit(q)
       IN  \E rows \in {o \in Orders(ListRows(u, cursor)) : Descending(o)} :
              LET hasMore == Len(rows) > limit
                  results == IF hasMore THEN SubSeq(rows, 1, limit) ELSE rows
                  nextCursor == IF hasMore
                                THEN <<conversation[results[Len(results)]].updatedAt>>
                                ELSE NoRev
              IN  Goto(s, [IdleReq EXCEPT !.op = "listConvos", !.pc = "hydrate",
                                          !.did = u, !.cursor = cursor,
                                          !.seen = results, !.out = nextCursor])
    /\ UNCHANGED <<clock, nextMsg, nextConvo, dbVars, client, rest>>

\* Promise.all(results.map(hydrate)): members, last message and unread count
\* are read; res.json({ convos, cursor: nextCursor }) reaches the client
ListConvos_hydrate(s) ==
    /\ At(s, "listConvos", "hydrate")
    /\ Respond(s, req[s], "ok")
    /\ client' = [client EXCEPT ![req[s].did].listed = @ \o req[s].seen,
                                ![req[s].did].page = req[s].out,
                                ![req[s].did].listDone = req[s].out = NoRev]
    /\ UNCHANGED <<clock, nextMsg, nextConvo, dbVars, rest>>

ListConvos(U) ==
    \/ \E s \in Slots, u \in U, q \in 1..MaxLimit : ListConvos_select(s, u, q)
    \/ \E s \in Slots : ListConvos_hydrate(s)

----------------------------------------------------------------------------
(* Presence and privacy: POST /chat/presence, POST /chat/presence/batch,   *)
(* PUT /chat/privacy                                                       *)

\* a request body field that is true, false or not given
Optional == {"true", "false", "absent"}
\* the fields of the PUT body, in the order showReadReceipts, showOnlineStatus,
\* showLastSeen
Bodies == Optional \X Optional \X Optional

\* f !== false ? 1 : 0
InsertFlag(f) == IF f = "false" THEN 0 ELSE 1
\* typeof f === 'boolean' ? (f ? 1 : 0) : the stored value
UpdateFlag(f, old) == IF f = "true" THEN 1 ELSE IF f = "false" THEN 0 ELSE old

\* INSERT INTO chat_privacy ... ON CONFLICT (did) DO UPDATE SET updates
PutPrivacy_upsert(s, u, body) ==
    /\ FreeSlot(s)
    /\ LET old == chat_privacy[u]
       IN  chat_privacy' = [chat_privacy EXCEPT ![u] =
              IF old.exists
              THEN [exists |-> TRUE,
                    showReadReceipts |-> UpdateFlag(body[1], old.showReadReceipts),
                    showOnlineStatus |-> UpdateFlag(body[2], old.showOnlineStatus),
                    showLastSeen |-> UpdateFlag(body[3], old.showLastSeen)]
              ELSE [exists |-> TRUE,
                    showReadReceipts |-> InsertFlag(body[1]),
                    showOnlineStatus |-> InsertFlag(body[2]),
                    showLastSeen |-> InsertFlag(body[3])]]
    /\ Goto(s, [IdleReq EXCEPT !.op = "putPrivacy", !.pc = "select", !.did = u,
                               !.body = body])
    /\ UNCHANGED <<clock, nextMsg, nextConvo, dbVars, client, wsVars, authVars, sideVars>>

PutPrivacy_select(s) ==
    /\ At(s, "putPrivacy", "select")
    /\ Respond(s, req[s], "ok")
    /\ UNCHANGED <<clock, nextMsg, nextConvo, dbVars, client, rest>>

PutPrivacy(U, B) ==
    \/ \E s \in Slots, u \in U, body \in B : PutPrivacy_upsert(s, u, body)
    \/ \E s \in Slots : PutPrivacy_select(s)

\* POST /chat/presence: the caller's showOnlineStatus is read first
SetPresence_privacy(s, u, isOnline) ==
    /\ FreeSlot(s)
    /\ LET shouldBroadcast == ~chat_privacy[u].exists \/ chat_privacy[u].showOnlineStatus = 1
       IN  Goto(s, [IdleReq EXCEPT !.op = "setPresence", !.pc = "upsert", !.did = u,
                                   !.ts = now,
                                   !.val = IF shouldBroadcast /\ isOnline THEN "1" ELSE "0"])
    /\ UNCHANGED <<clock, nextMsg, nextConvo, dbVars, client, rest>>

SetPresence_upsert(s) ==
    /\ At(s, "setPresence", "upsert")
    /\ user_presence' = [user_presence EXCEPT ![req[s].did] =
          [exists |-> TRUE, isOnline |-> IF req[s].val = "1" THEN 1 ELSE 0,
           lastSeenAt |-> req[s].ts]]
    /\ Respond(s, req[s], "ok")
    /\ UNCHANGED <<clock, nextMsg, nextConvo, dbVars, client, chat_privacy, connections,
                   connectionMeta, clients, readyState, sent, pinged, frames, nextSweep,
                   presence, authVars, sideVars>>

SetPresence(U) ==
    \/ \E s \in Slots, u \in U, isOnline \in BOOLEAN : SetPresence_privacy(s, u, isOnline)
    \/ \E s \in Slots : SetPresence_upsert(s)

\* dids.slice(0, 100)
limitedDids(dids) == SubSeq(dids, 1, IF Len(dids) < BatchLimit THEN Len(dids) ELSE BatchLimit)

\* the caller's own setting is read the wrong way round
PrivacyBlockedMutant(u) == chat_privacy[u].exists /\ chat_privacy[u].showOnlineStatus = 1

\* myPrivacy && myPrivacy.showOnlineStatus === 0
PrivacyBlocked(u) == chat_privacy[u].exists /\ chat_privacy[u].showOnlineStatus = 0

BlockedView(did) == [did |-> did, isOnline |-> FALSE, lastSeenAt |-> 0]

\* one entry of the result; the privacy columns of the left join are null
\* when the identity has no chat_privacy row
PresenceView(did) ==
    LET p == user_presence[did]
        showOnline == ~chat_privacy[did].exists \/ chat_privacy[did].showOnlineStatus = 1
        showLastSeen == ~chat_privacy[did].exists \/ chat_privacy[did].showLastSeen = 1
    IN  IF ~p.exists THEN BlockedView(did)
        ELSE [did |-> did,
              isOnline |-> IF showOnline THEN p.isOnline = 1 ELSE FALSE,
              lastSeenAt |-> IF showLastSeen THEN p.lastSeenAt ELSE 0]

BatchPresence_privacy(s, u, dids) ==
    /\ FreeSlot(s)
    /\ LET r0 == [IdleReq EXCEPT !.op = "batchPresence", !.did = u, !.dids = dids]
           limited == limitedDids(dids)
       IN  IF dids = <<>> THEN Respond(s, r0, "400")
           ELSE IF PrivacyBlocked(u)
           THEN Respond(s, [r0 EXCEPT !.presences =
                               [i \in 1..Len(limited) |-> BlockedView(limited[i])]], "ok")
           ELSE Goto(s, [r0 EXCEPT !.pc = "presences"])
    /\ UNCHANGED <<clock, nextMsg, nextConvo, dbVars, client, rest>>

BatchPresence_presences(s) ==
    /\ At(s, "batchPresence", "presences")
    /\ LET limited == limitedDids(req[s].dids)
       IN  Respond(s, [req[s] EXCEPT !.presences =
                          [i \in 1..Len(limited) |-> PresenceView(limited[i])]], "ok")
    /\ UNCHANGED <<clock, nextMsg, nextConvo, dbVars, client, rest>>

BatchPresence(U, D) ==
    \/ \E s \in Slots, u \in U, dids \in D : BatchPresence_privacy(s, u, dids)
    \/ \E s \in Slots : BatchPresence_presences(s)

----------------------------------------------------------------------------
(* The websocket server                                                    *)

NoMeta == [userDid |-> "", lastHeartbeat |-> 0, activeConversationId |-> 0]
NoPresence == [exists |-> FALSE, isOnline |-> 0, lastSeenAt |-> 0]
PresenceCalls == Conns \X {"online", "offline"}
NoCall == [pc |-> "none", did |-> "", ts |-> 0, convs |-> {}, contacts |-> {}]

\* a frame the server sends: its type and the identity or conversation it is about
Frame(type, about) == <<type, about>>

Registered(c) == \E u \in Users : c \in connections[u]

\* ws.send(data), guarded by readyState === OPEN in sendToUser
SendTo(to, frame, old) ==
    [c \in Conns |-> IF c \in to /\ readyState[c] = "OPEN" THEN old[c] \cup {frame}
                     ELSE old[c]]

\* sendToUser, for each of the identities in dids
sendToUsers(dids, frame, old) ==
    SendTo(UNION {connections[u] : u \in dids}, frame, old)

\* broadcastPresence up to its first await: the upsert is on its way
StartPresence(c, status, u) ==
    presence' = [presence EXCEPT ![<<c, status>>] =
                   [NoCall EXCEPT !.pc = "upsert", !.did = u, !.ts = now]]

\* the handler closes the socket and still acknowledges the connection
ConnectRefusedMutant(c) ==
    /\ readyState[c] = "NONE"
    /\ clients' = clients \cup {c}
    /\ readyState' = [readyState EXCEPT ![c] = "CLOSING"]
    /\ closeCode' = [closeCode EXCEPT ![c] = UNAUTHORIZED]
    /\ sent' = [sent EXCEPT ![c] = @ \cup {Frame("connected", "")}]
    /\ UNCHANGED <<clock, chatVars, connections, connectionMeta, pinged, frames,
                   nextSweep, presence, user_presence, authFailures, authLog, sideVars>>

\* wss.on('connection'): the token does not authenticate: ws.close(4001)
ConnectRefused(c) ==
    /\ readyState[c] = "NONE"
    /\ clients' = clients \cup {c}
    /\ readyState' = [readyState EXCEPT ![c] = "CLOSING"]
    /\ closeCode' = [closeCode EXCEPT ![c] = UNAUTHORIZED]
    /\ UNCHANGED <<clock, chatVars, connections, connectionMeta, sent, pinged, frames,
                   nextSweep, presence, user_presence, authFailures, authLog, sideVars>>

\* wss.on('connection'): authenticateConnection returns userDid without waiting
\* for anything, so the handler runs through in one piece
Connect(c, userDid) ==
    /\ readyState[c] = "NONE"
    /\ clients' = clients \cup {c}
    /\ readyState' = [readyState EXCEPT ![c] = "OPEN"]
    /\ connectionMeta' = [connectionMeta EXCEPT ![c] =
                            [NoMeta EXCEPT !.userDid = userDid, !.lastHeartbeat = now]]
    /\ connectionKeys' = connectionKeys \cup {userDid}
    /\ connections' = [connections EXCEPT ![userDid] = @ \cup {c}]
    /\ sent' = [sent EXCEPT ![c] = @ \cup {Frame("connected", userDid)}]
    /\ StartPresence(c, "online", userDid)
    /\ UNCHANGED <<clock, chatVars, pinged, frames, nextSweep, user_presence, authVars,
                   cast, typing, lastPresence, pureVars>>

FrameTypes == {"ping", "join_conversation", "unknown", "unparseable"}

\* ws.on('message'): JSON.parse, handleClientMessage, then the heartbeat
ClientMessage(c, type) ==
    /\ readyState[c] = "OPEN" /\ Registered(c)
    /\ frames[c] < MaxFrames
    /\ frames' = [frames EXCEPT ![c] = @ + 1]
    /\ sent' = IF type = "ping" THEN [sent EXCEPT ![c] = @ \cup {Frame("pong", "")}]
               ELSE sent
    /\ connectionMeta' =
          IF type = "unparseable" THEN connectionMeta
          ELSE [connectionMeta EXCEPT
                  ![c].lastHeartbeat = now,
                  ![c].activeConversationId =
                      IF type = "join_conversation" THEN 1 ELSE @]
    /\ UNCHANGED <<clock, chatVars, connections, clients, readyState, pinged,
                   nextSweep, presence, user_presence, authVars, sideVars>>

\* ws.on('pong')
Pong(c) ==
    /\ readyState[c] = "OPEN" /\ pinged[c]
    /\ pinged' = [pinged EXCEPT ![c] = FALSE]
    /\ connectionMeta' = [connectionMeta EXCEPT ![c].lastHeartbeat = now]
    /\ UNCHANGED <<clock, chatVars, connections, clients, readyState, sent, frames,
                   nextSweep, presence, user_presence, authVars, sideVars>>

\* the entry of an identity stays in the registry when its last connection goes
KeysAfterDeleteMutant(userDid, userConnections) == connectionKeys

\* if (userConnections.size === 0) connections.delete(userDid)
KeysAfterDelete(userDid, userConnections) ==
    IF userConnections = {} THEN connectionKeys \ {userDid} ELSE connectionKeys

\* isUserOnline(userDid)
isUserOnline(userDid) ==
    userDid \in connectionKeys /\ Cardinality(connections[userDid]) > 0

\* getOnlineUsers(): Array.from(connections.keys())
getOnlineUsers == connectionKeys

\* the close handler announces the identity offline whatever connections remain
OnCloseMutant(c) ==
    LET userDid == connectionMeta[c].userDid
    IN  /\ readyState' = [readyState EXCEPT ![c] = "CLOSED"]
        /\ clients' = clients \ {c}
        /\ pinged' = [pinged EXCEPT ![c] = FALSE]
        /\ IF userDid = "" \/ userDid \notin connectionKeys
           THEN UNCHANGED <<connections, connectionKeys, presence>>
           ELSE /\ connections' = [connections EXCEPT ![userDid] = @ \ {c}]
                /\ connectionKeys' = KeysAfterDelete(userDid, connections[userDid] \ {c})
                /\ StartPresence(c, "offline", userDid)
        /\ UNCHANGED <<clock, chatVars, connectionMeta, sent, frames, nextSweep,
                       user_presence, authVars, cast, typing, lastPresence, pureVars>>

\* the socket is gone: the server drops it from wss.clients and, for an
\* authenticated connection, ws.on('close') runs
OnClose(c) ==
    LET userDid == connectionMeta[c].userDid
    IN  /\ readyState' = [readyState EXCEPT ![c] = "CLOSED"]
        /\ clients' = clients \ {c}
        /\ pinged' = [pinged EXCEPT ![c] = FALSE]
        /\ IF userDid = "" \/ userDid \notin connectionKeys
           THEN UNCHANGED <<connections, connectionKeys, presence>>
           ELSE /\ connections' = [connections EXCEPT ![userDid] = @ \ {c}]
                /\ connectionKeys' = KeysAfterDelete(userDid, connections[userDid] \ {c})
                /\ IF connections[userDid] \ {c} = {}
                   THEN StartPresence(c, "offline", userDid)
                   ELSE UNCHANGED presence
        /\ UNCHANGED <<clock, chatVars, connectionMeta, sent, frames, nextSweep,
                       user_presence, authVars, cast, typing, lastPresence, pureVars>>

\* the client goes away
ClientClose(c) == readyState[c] = "OPEN" /\ OnClose(c)

\* the close event that follows ws.terminate() or ws.close()
CloseEvent(c) == readyState[c] = "CLOSING" /\ OnClose(c)

\* a close event delivered again for a socket that has already closed
RepeatClose(c) == readyState[c] = "CLOSED" /\ OnClose(c)

\* the staleness test is a whole interval too lenient
StaleMutant(c) == now - connectionMeta[c].lastHeartbeat > CONNECTION_TIMEOUT + HEARTBEAT_INTERVAL

\* now - meta.lastHeartbeat.getTime() > CONNECTION_TIMEOUT
Stale(c) == now - connectionMeta[c].lastHeartbeat > CONNECTION_TIMEOUT

\* setInterval(..., HEARTBEAT_INTERVAL): terminate or ping every client
Sweep ==
    /\ clock = nextSweep
    /\ nextSweep' = nextSweep + HEARTBEAT_INTERVAL
    /\ LET terminated == {c \in clients : connectionMeta[c].userDid = "" \/ Stale(c)}
       IN  /\ readyState' = [c \in Conns |->
                IF c \in terminated /\ readyState[c] = "OPEN" THEN "CLOSING"
                ELSE readyState[c]]
           /\ pinged' = [c \in Conns |->
                IF c \in clients \ terminated /\ readyState[c] = "OPEN" THEN TRUE
                ELSE pinged[c]]
    /\ UNCHANGED <<clock, chatVars, connections, connectionMeta, clients, sent, frames,
                   presence, user_presence, authVars, sideVars>>

Quantum == HEARTBEAT_INTERVAL \div TicksPerSweep
Horizon == ClockStart + MaxSweeps * HEARTBEAT_INTERVAL

\* time passes; the interval fires when it is due
TickQuantum ==
    /\ clock + Quantum <= nextSweep
    /\ clock + Quantum <= Horizon
    /\ clock' = clock + Quantum
    /\ UNCHANGED <<chatVars, wsVars, authVars, sideVars>>

\* INSERT INTO user_presence ... ON CONFLICT (did) DO UPDATE
Presence_upsert(k) ==
    /\ presence[k].pc = "upsert"
    /\ user_presence' = [user_presence EXCEPT ![presence[k].did] =
          [exists |-> TRUE, isOnline |-> IF k[2] = "online" THEN 1 ELSE 0,
           lastSeenAt |-> presence[k].ts]]
    /\ presence' = [presence EXCEPT ![k].pc = "conversations"]
    /\ UNCHANGED <<clock, chatVars, connections, connectionMeta, clients, readyState,
                   sent, pinged, frames, nextSweep, authVars, sideVars>>

\* every broadcast says online
PresenceStatusMutant(k) == "online"

\* payload.status of the presence event of call k
PresenceStatus(k) == k[2]

\* the websockets of contacts that are sent the event take it as the last word
\* about the identity
Received(contacts, did, status) ==
    [c \in Conns |->
        IF c \in UNION {connections[u] : u \in contacts} /\ readyState[c] = "OPEN"
        THEN [lastPresence[c] EXCEPT ![did] = status]
        ELSE lastPresence[c]]

\* contacts.forEach(sendToUser): the call ends
Presence_send(k, contacts) ==
    /\ sent' = sendToUsers(contacts, Frame("presence", presence[k].did), sent)
    /\ lastPresence' = Received(contacts, presence[k].did, PresenceStatus(k))
    /\ presence' = [presence EXCEPT ![k] = NoCall]

\* the presence call sends nothing
Presence_quiet == UNCHANGED <<sent, lastPresence>>

\* SELECT conversationId FROM conversation_member WHERE memberDid = userDid
Presence_conversations(k) ==
    /\ presence[k].pc = "conversations"
    /\ LET convs == {c \in ConvoIds :
                       conversation_member[<<c, presence[k].did>>].status # "none"}
       IN  IF convs = {} THEN Presence_send(k, {})
           ELSE /\ presence' = [presence EXCEPT ![k].pc = "members", ![k].convs = convs]
                /\ Presence_quiet
    /\ UNCHANGED <<clock, chatVars, connections, connectionMeta, clients, readyState,
                   pinged, frames, nextSweep, user_presence, authVars, cast, typing,
                   connectionKeys, pureVars>>

\* for (const conv of conversations): SELECT memberDid ... WHERE memberDid != userDid
Presence_members(k) ==
    /\ presence[k].pc = "members"
    /\ LET conv == CHOOSE c \in presence[k].convs : \A d \in presence[k].convs : c <= d
           members == {u \in Users \ {presence[k].did} :
                         conversation_member[<<conv, u>>].status # "none"}
           contacts == presence[k].contacts \cup members
       IN  IF presence[k].convs = {conv} THEN Presence_send(k, contacts)
           ELSE /\ presence' = [presence EXCEPT ![k].convs = @ \ {conv},
                                                ![k].contacts = contacts]
                /\ Presence_quiet
    /\ UNCHANGED <<clock, chatVars, connections, connectionMeta, clients, readyState,
                   pinged, frames, nextSweep, user_presence, authVars, cast, typing,
                   connectionKeys, pureVars>>

broadcastPresence ==
    \/ \E k \in PresenceCalls : Presence_upsert(k)
    \/ \E k \in PresenceCalls : Presence_conversations(k)
    \/ \E k \in PresenceCalls : Presence_members(k)

----------------------------------------------------------------------------
(* sendToConversation                                                      *)

NoCast == [pc |-> "none", conversationId |-> 0, exclude |-> "", result |-> "", threw |-> ""]

\* the call up to its first await: the conversation select is on its way
sendToConversation(conversationId, excludeUserDid) ==
    /\ cast.pc = "none"
    /\ cast' = [NoCast EXCEPT !.pc = "conversation", !.conversationId = conversationId,
                              !.exclude = excludeUserDid]
    /\ UNCHANGED <<clock, chatVars, wsVars, authVars, typing, connectionKeys,
                   lastPresence, pureVars>>

\* SELECT * FROM conversation WHERE id = conversationId; if (!conversation) return
Cast_conversation ==
    /\ cast.pc = "conversation"
    /\ cast' = IF conversation[cast.conversationId] = NoConvo
               THEN [NoCast EXCEPT !.result = "resolved"]
               ELSE [cast EXCEPT !.pc = "members"]
    /\ UNCHANGED <<clock, chatVars, wsVars, authVars, typing, connectionKeys,
                   lastPresence, pureVars>>

\* the websockets that members.forEach(sendToUser) calls ws.send on
Cast_targets ==
    {c \in UNION {connections[u] : u \in Users \ {cast.exclude}} :
        /\ conversation_member[<<cast.conversationId, connectionMeta[c].userDid>>].status
              # "none"
        /\ readyState[c] = "OPEN"}

\* ws.send throws on websocket t: the forEach loops end there, and the
\* websockets that come after t in the iteration are never sent to
Cast_thrown(t) == SUBSET (Cast_targets \ {t})

\* SELECT memberDid FROM conversation_member WHERE conversationId = ...; then
\* members.forEach(sendToUser). ws.send either hands the frame to the socket
\* or throws, and nothing in sendToUser or sendToConversation catches
Cast_members ==
    /\ cast.pc = "members"
    /\ \/ /\ sent' = SendTo(Cast_targets, Frame("event", cast.conversationId), sent)
          /\ cast' = [NoCast EXCEPT !.result = "resolved"]
       \/ \E t \in Cast_targets : \E before \in Cast_thrown(t) :
             /\ sent' = SendTo(before, Frame("event", cast.conversationId), sent)
             /\ cast' = [NoCast EXCEPT !.result = "rejected", !.threw = t]
    /\ UNCHANGED <<clock, chatVars, connections, connectionMeta, clients, readyState,
                   pinged, frames, nextSweep, presence, user_presence, authVars,
                   typing, connectionKeys, lastPresence, pureVars>>

----------------------------------------------------------------------------
(* The typing frame: handleClientMessage and handleTypingIndicator         *)

NoTyping == [pc |-> "none", userDid |-> "", conversationId |-> 0]

\* the typing event also goes to the connections of the identity that typed
TypingExcludedMutant(userDid) == {}

\* members.forEach: if (member.memberDid !== userDid)
TypingExcluded(userDid) == {userDid}

\* ws.on('message') with a typing frame: handleTypingIndicator runs up to its
\* first await, the conversation select; then the heartbeat is refreshed
TypingFrame(c, conversationId) ==
    /\ readyState[c] = "OPEN" /\ Registered(c)
    /\ frames[c] < MaxFrames
    /\ typing.pc = "none"
    /\ frames' = [frames EXCEPT ![c] = @ + 1]
    /\ connectionMeta' = [connectionMeta EXCEPT ![c].lastHeartbeat = now]
    /\ typing' = [pc |-> "conversation", userDid |-> connectionMeta[c].userDid,
                  conversationId |-> conversationId]
    /\ UNCHANGED <<clock, chatVars, connections, clients, readyState, sent, pinged,
                   nextSweep, presence, user_presence, authVars, cast, connectionKeys,
                   lastPresence, pureVars>>

\* SELECT * FROM conversation WHERE id = conversationId; if (!conversation) return
Typing_conversation ==
    /\ typing.pc = "conversation"
    /\ typing' = IF conversation[typing.conversationId] = NoConvo THEN NoTyping
                 ELSE [typing EXCEPT !.pc = "members"]
    /\ UNCHANGED <<clock, chatVars, wsVars, authVars, cast, connectionKeys, lastPresence,
                   pureVars>>

\* the websockets that members.forEach(sendToUser) calls ws.send on: the
\* select has no condition on status and none on the identity that typed
Typing_targets ==
    {c \in UNION {connections[u] : u \in Users \ TypingExcluded(typing.userDid)} :
        /\ \E u \in Users : /\ c \in connections[u]
                            /\ conversation_member[<<typing.conversationId, u>>].status
                                  # "none"
        /\ readyState[c] = "OPEN"}

\* SELECT memberDid FROM conversation_member WHERE conversationId = ...; then
\* members.forEach(sendToUser), which ends at the first ws.send that throws
Typing_members ==
    /\ typing.pc = "members"
    /\ LET frame == Frame("typing", <<typing.conversationId, typing.userDid>>)
       IN  \/ sent' = SendTo(Typing_targets, frame, sent)
           \/ \E t \in Typing_targets : \E before \in SUBSET (Typing_targets \ {t}) :
                 sent' = SendTo(before, frame, sent)
    /\ typing' = NoTyping
    /\ UNCHANGED <<clock, chatVars, connections, connectionMeta, clients, readyState,
                   pinged, frames, nextSweep, presence, user_presence, authVars,
                   cast, connectionKeys, lastPresence, pureVars>>

handleTypingIndicator(C) ==
    \/ \E c \in Conns, conversationId \in C : TypingFrame(c, conversationId)
    \/ Typing_conversation
    \/ Typing_members

----------------------------------------------------------------------------
(* The request rate limiter                                                *)

\* req.ip || 'unknown'
Identifiers == {"ip1", "ip2"}
NoRecord == [exists |-> FALSE, count |-> 0, resetAt |-> 0]

\* the limit is one request late
LimitReachedMutant(record) == record.count > RATE_LIMIT_MAX_REQUESTS

\* record.count >= RATE_LIMIT_MAX_REQUESTS
LimitReached(record) == record.count >= RATE_LIMIT_MAX_REQUESTS

\* rateLimit(identifier): the store it leaves and the boolean it returns
rateLimit(identifier) ==
    LET nowMs == clock
        record == rateLimitStore[identifier]
    IN  IF ~record.exists \/ record.resetAt < nowMs
        THEN [store |-> [rateLimitStore EXCEPT ![identifier] =
                           [exists |-> TRUE, count |-> 1,
                            resetAt |-> nowMs + RATE_LIMIT_WINDOW]],
              admitted |-> TRUE]
        ELSE IF LimitReached(record)
        THEN [store |-> rateLimitStore, admitted |-> FALSE]
        ELSE [store |-> [rateLimitStore EXCEPT ![identifier].count = @ + 1],
              admitted |-> TRUE]

\* rateLimitMiddleware: 429 or next(); the second identifier makes few requests
rateLimitMiddleware(identifier) ==
    /\ identifier = "ip1" \/ rateLimitStore[identifier].count < MaxOther
    /\ rateLimitStore' = rateLimit(identifier).store
    /\ resp' = [IdleReq EXCEPT !.op = "rateLimit", !.did = identifier, !.ts = clock,
                               !.res = IF rateLimit(identifier).admitted THEN "next"
                                       ELSE "429"]
    /\ UNCHANGED <<clock, nextMsg, nextConvo, dbVars, req, client, chat_privacy, wsVars,
                   authVars, cast, typing, connectionKeys, lastPresence, statusQuery>>

\* setInterval(..., 60 * 1000): the entries whose window has passed are deleted
LimitCleanup ==
    /\ \E id \in Identifiers : rateLimitStore[id].exists /\ rateLimitStore[id].resetAt < clock
    /\ rateLimitStore' = [id \in Identifiers |->
          IF rateLimitStore[id].exists /\ rateLimitStore[id].resetAt < clock THEN NoRecord
          ELSE rateLimitStore[id]]
    /\ UNCHANGED <<clock, chatVars, wsVars, authVars, cast, typing, connectionKeys,
                   lastPresence, statusQuery>>

\* time passes: to the last millisecond of the window that opened at
\* ClockStart, then a millisecond at a time
TickLimit ==
    /\ clock < ClockStart + RATE_LIMIT_WINDOW + MaxLate
    /\ clock' = IF clock < ClockStart + RATE_LIMIT_WINDOW
                THEN ClockStart + RATE_LIMIT_WINDOW ELSE clock + 1
    /\ UNCHANGED <<chatVars, wsVars, authVars, sideVars>>

SideIdle ==
    /\ cast = NoCast
    /\ typing = NoTyping
    /\ rateLimitStore = [id \in Identifiers |-> NoRecord]
    /\ statusQuery = NoQuery

----------------------------------------------------------------------------
(* authenticateConnection and its failure limiter                          *)

\* req.socket.remoteAddress
Addrs == {"ip1"}
\* what the query string carries: a token that verifies for the did, one that
\* does not (bad did, bad format, expired, other subject), or no token or did
Credentials == {"valid", "invalid", "missing"}

NoFailures == [exists |-> FALSE, count |-> 0, lastAttempt |-> 0]

\* failures && failures.count >= MAX_AUTH_FAILURES
AtMaxFailures(ip) == authFailures[ip].exists /\ authFailures[ip].count >= MAX_AUTH_FAILURES

\* ... && Date.now() - failures.lastAttempt < AUTH_FAILURE_WINDOW
RateLimited(ip) ==
    AtMaxFailures(ip) /\ now - authFailures[ip].lastAttempt < AUTH_FAILURE_WINDOW

\* the entry of a locked-out address is kept when its window has expired
afterWindowMutant(ip) == authFailures

\* authFailures.delete(ip) once the window has expired
afterWindow(ip) ==
    IF AtMaxFailures(ip) /\ ~RateLimited(ip) THEN [authFailures EXCEPT ![ip] = NoFailures]
    ELSE authFailures

recordAuthFailure(failures, ip) ==
    IF failures[ip].exists
    THEN [failures EXCEPT ![ip].count = @ + 1, ![ip].lastAttempt = now]
    ELSE [failures EXCEPT ![ip] = [exists |-> TRUE, count |-> 1, lastAttempt |-> now]]

\* what authenticateConnection does with the attempt
authenticateConnection(ip, cred) ==
    IF cred = "missing" THEN "missing"
    ELSE IF RateLimited(ip) THEN "limited"
    ELSE IF cred = "invalid" THEN "failed"
    ELSE "ok"

\* wss.on('connection') on a new socket c from address ip: authenticate, then
\* close the socket with 4001 or register it for userDid
Handshake(c, ip, cred, userDid) ==
    /\ readyState[c] = "NONE"
    /\ Len(authLog) < MaxAttempts
    /\ LET outcome == authenticateConnection(ip, cred)
       IN  /\ authFailures' =
                 IF outcome \in {"missing", "limited"} THEN authFailures
                 ELSE IF outcome = "failed" THEN recordAuthFailure(afterWindow(ip), ip)
                 ELSE afterWindow(ip)
           /\ authLog' = Append(authLog, [ip |-> ip, cred |-> cred, at |-> now,
                                          outcome |-> outcome])
           /\ clients' = clients \cup {c}
           /\ IF outcome = "ok"
              THEN /\ readyState' = [readyState EXCEPT ![c] = "OPEN"]
                   /\ connectionMeta' = [connectionMeta EXCEPT ![c] =
                         [NoMeta EXCEPT !.userDid = userDid, !.lastHeartbeat = now]]
                   /\ connectionKeys' = connectionKeys \cup {userDid}
                   /\ connections' = [connections EXCEPT ![userDid] = @ \cup {c}]
                   /\ sent' = [sent EXCEPT ![c] = @ \cup {Frame("connected", userDid)}]
                   /\ StartPresence(c, "online", userDid)
                   /\ UNCHANGED closeCode
              ELSE /\ readyState' = [readyState EXCEPT ![c] = "CLOSING"]
                   /\ closeCode' = [closeCode EXCEPT ![c] = UNAUTHORIZED]
                   /\ UNCHANGED <<connectionMeta, connections, connectionKeys, sent,
                                  presence>>
    /\ UNCHANGED <<clock, chatVars, pinged, frames, nextSweep, user_presence,
                   cast, typing, lastPresence, pureVars>>

\* the next socket: a closed socket is gone, and its name stands for the
\* socket of the next attempt
NewSocket(c) ==
    /\ readyState[c] = "CLOSED"
    /\ \A status \in {"online", "offline"} : presence[<<c, status>>] = NoCall
    /\ readyState' = [readyState EXCEPT ![c] = "NONE"]
    /\ connectionMeta' = [connectionMeta EXCEPT ![c] = NoMeta]
    /\ sent' = [sent EXCEPT ![c] = {}]
    /\ frames' = [frames EXCEPT ![c] = 0]
    /\ closeCode' = [closeCode EXCEPT ![c] = 0]
    /\ lastPresence' = [lastPresence EXCEPT ![c] = [u \in Users |-> ""]]
    /\ UNCHANGED <<clock, chatVars, connections, clients, pinged, nextSweep, presence,
                   user_presence, authFailures, authLog, cast, typing, connectionKeys,
                   pureVars>>

\* time passes, a part of the limiter's window at a time
TickWindow ==
    /\ clock + AUTH_FAILURE_WINDOW \div TicksPerWindow
          <= ClockStart + MaxWindows * AUTH_FAILURE_WINDOW
    /\ clock' = clock + AUTH_FAILURE_WINDOW \div TicksPerWindow
    /\ UNCHANGED <<chatVars, wsVars, authVars, sideVars>>

InitLimiter ==
    /\ authFailures = [ip \in Addrs |-> NoFailures]
    /\ authLog = <<>>

\* no socket has connected yet
SocketsClosed ==
    /\ connections = [u \in Users |-> {}]
    /\ connectionKeys = {}
    /\ lastPresence = [c \in Conns |-> [u \in Users |-> ""]]
    /\ connectionMeta = [c \in Conns |-> NoMeta]
    /\ clients = {}
    /\ readyState = [c \in Conns |-> "NONE"]
    /\ sent = [c \in Conns |-> {}]
    /\ pinged = [c \in Conns |-> FALSE]
    /\ frames = [c \in Conns |-> 0]
    /\ nextSweep = ClockStart + HEARTBEAT_INTERVAL
    /\ presence = [k \in PresenceCalls |-> NoCall]
    /\ user_presence = [u \in Users |-> NoPresence]
    /\ closeCode = [c \in Conns |-> 0]

SocketsIdle == SocketsClosed /\ SideIdle

InitSockets == SocketsIdle /\ InitLimiter

----------------------------------------------------------------------------
(* Initial states                                                          *)

StoreEmpty ==
    /\ clock = ClockStart
    /\ nextMsg = 1
    /\ nextConvo = 1
    /\ conversation = [c \in ConvoIds |-> NoConvo]
    /\ conversation_member = [k \in ConvoIds \X Users |-> NoMember]
    /\ message = [m \in MsgIds |-> NoMessage]
    /\ message_event = <<>>
    /\ message_status = [k \in MsgIds \X Users |-> NoStatus]
    /\ req = [s \in Slots |-> IdleReq]
    /\ resp = IdleReq
    /\ client = [u \in Users |-> NewClient]
    /\ chat_privacy = [u \in Users |-> NoPrivacy]

\* the state after getOrCreate by A for {A, B}: conversation 1, A accepted, B request
DirectConvo(c, a, b, t) ==
    [k \in ConvoIds \X Users |->
        IF k = <<c, a>> THEN [NoMember EXCEPT !.status = "accepted", !.joinedAt = t]
        ELSE IF k = <<c, b>> THEN [NoMember EXCEPT !.status = "request", !.joinedAt = t]
        ELSE NoMember]

\* conversation 1 was created at time t by A with B, whose privacy rows are
\* those given
StoreDirectWith(t, privacy) ==
    /\ clock = t
    /\ nextMsg = 1
    /\ nextConvo = 2
    /\ conversation = [c \in ConvoIds |->
          IF c = 1 THEN [createdAt |-> t, updatedAt |-> t] ELSE NoConvo]
    /\ conversation_member = DirectConvo(1, "A", "B", t)
    /\ message = [m \in MsgIds |-> NoMessage]
    /\ message_event = <<>>
    /\ message_status = [k \in MsgIds \X Users |-> NoStatus]
    /\ req = [s \in Slots |-> IdleReq]
    /\ resp = IdleReq
    /\ client = [u \in Users |-> NewClient]
    /\ chat_privacy = privacy

StoreDirectAt(t) == StoreDirectWith(t, [u \in Users |-> NoPrivacy])

StoreDirect == StoreDirectAt(ClockStart)

\* conversation 1 of A (accepted) and B (request) after B sent message 1 and A
\* reacted to it n times, one millisecond apart, all before ClockStart
SeedReactions(n) == [i \in 1..n |-> <<ValueSeq[i], "A">>]
SeedRev(i) == generateRev(ClockStart - MaxReactionsPerUser - 1 + i, 0)
SeedTime(i) == ClockStart - MaxReactionsPerUser - 1 + i
SeedLog(n) ==
    [i \in 1..(n + 1) |->
        IF i = 1 THEN Event(1, "message", "logCreateMessage", SeedRev(0), SeedTime(0),
                            1, "", "B", "")
        ELSE Event(1, "reaction", "logAddReaction", SeedRev(i - 1), SeedTime(i - 1),
                   1, ValueSeq[i - 1], "A", "")]

StoreMessage(n) ==
    /\ clock = ClockStart
    /\ nextMsg = 2
    /\ nextConvo = 2
    /\ conversation = [c \in ConvoIds |->
          IF c = 1 THEN [createdAt |-> SeedTime(-1), updatedAt |-> SeedTime(0)]
          ELSE NoConvo]
    /\ conversation_member =
          [DirectConvo(1, "A", "B", SeedTime(-1)) EXCEPT ![<<1, "B">>].lastReadRev = SeedRev(0)]
    /\ message = [m \in MsgIds |->
          IF m = 1 THEN [conversationId |-> 1, senderDid |-> "B", text |-> MessageText,
                         reactions |-> SeedReactions(n), rev |-> SeedRev(0),
                         createdAt |-> SeedTime(0), deletedAt |-> 0]
          ELSE NoMessage]
    /\ message_event = SeedLog(n)
    /\ message_status = [k \in MsgIds \X Users |-> NoStatus]
    /\ req = [s \in Slots |-> IdleReq]
    /\ resp = IdleReq
    /\ client = [u \in Users |-> NewClient]
    /\ chat_privacy = [u \in Users |-> NoPrivacy]

\* the server has started and nobody has connected
InitEmpty == StoreEmpty /\ InitSockets
InitDirect == StoreDirect /\ InitSockets
InitMessage(n) == StoreMessage(n) /\ InitSockets

----------------------------------------------------------------------------
(* Polling the log while members send and leave                            *)

NextLog ==
    \/ TickMs
    \/ SendMessage(Users, {1})
    \/ SyncLog({"B"})
    \/ Leave("B", 1)

SpecLog == InitDirect /\ [][NextLog]_vars

----------------------------------------------------------------------------
(* Both identities opening their direct conversation                       *)

NextDirect == TickMs \/ GetOrCreate

SpecDirect == InitEmpty /\ [][NextDirect]_vars

----------------------------------------------------------------------------
(* The membership lifecycle                                                *)

NextMembership ==
    \/ GetOrCreate
    \/ \E u \in Users, c \in ConvoIds : Accept(u, c)
    \/ \E u \in Users, c \in ConvoIds : Leave(u, c)

SpecMembership == InitEmpty /\ [][NextMembership]_vars

----------------------------------------------------------------------------
(* Mutations of conversation 1 while store statements may fail             *)

NextAtomic ==
    \/ SendMessage({"A"}, {1})
    \/ DeleteMessage({"A"}, {1}, {1})
    \/ Reactions({"B"}, {1}, {1}, {ValueSeq[1]})
    \/ \E s \in Slots : StorageFail(s)

SpecAtomic == InitDirect /\ [][NextAtomic]_vars

----------------------------------------------------------------------------
(* Reactions to message 1, on which A starts at the cap: the values are    *)
(* A's last reaction and one that nobody has added yet                     *)

ReactValues == {ValueSeq[MaxReactionsPerUser], ValueSeq[MaxReactionsPerUser + 1]}

NextReact == Reactions(Users, {1}, {1}, ReactValues)

SpecReact == InitMessage(MaxReactionsPerUser) /\ [][NextReact]_vars

----------------------------------------------------------------------------
(* Delivery and read status of message 1, sent by B, for its recipient A   *)

NextStatus ==
    \/ TickMs
    \/ MessageStatus({"A"}, {1}, {1})
    \/ GetMessages({"A"}, {1})

SpecStatus == InitMessage(0) /\ [][NextStatus]_vars

----------------------------------------------------------------------------
(* The connections of A (B has none), their heartbeats and the sweep       *)

NextHeartbeat ==
    \/ TickQuantum
    \/ Sweep
    \/ Connect("w1", "A")
    \/ ConnectRefused("w2")
    \/ \E c \in Conns, t \in {"ping", "unparseable"} : ClientMessage(c, t)
    \/ \E c \in Conns : Pong(c)
    \/ \E c \in Conns : ClientClose(c)
    \/ \E c \in Conns : CloseEvent(c)
    \/ broadcastPresence

\* timers fire and close events are delivered
SpecHeartbeat ==
    /\ InitDirect /\ [][NextHeartbeat]_vars
    /\ WF_vars(TickQuantum) /\ WF_vars(Sweep)
    /\ \A c \in Conns : WF_vars(CloseEvent(c))

----------------------------------------------------------------------------
(* Mutations of conversation 1, which holds message 1 of B, while A and B   *)
(* are both connected                                                      *)

\* the state after A, then B, connected and their presence went out
InitConnected ==
    /\ connections = [u \in Users |-> IF u = "A" THEN {"w1"} ELSE {"w2"}]
    /\ connectionKeys = Users
    /\ lastPresence = [c \in Conns |-> [u \in Users |->
          IF c = "w1" /\ u = "B" THEN "online" ELSE ""]]
    /\ connectionMeta = [c \in Conns |->
          [NoMeta EXCEPT !.userDid = IF c = "w1" THEN "A" ELSE "B",
                         !.lastHeartbeat = ClockStart]]
    /\ clients = Conns
    /\ readyState = [c \in Conns |-> "OPEN"]
    /\ sent = [c \in Conns |->
          IF c = "w1" THEN {Frame("connected", "A"), Frame("presence", "B")}
          ELSE {Frame("connected", "B")}]
    /\ pinged = [c \in Conns |-> FALSE]
    /\ frames = [c \in Conns |-> 0]
    /\ nextSweep = ClockStart + HEARTBEAT_INTERVAL
    /\ presence = [k \in PresenceCalls |-> NoCall]
    /\ user_presence = [u \in Users |->
          [exists |-> TRUE, isOnline |-> 1, lastSeenAt |-> ClockStart]]
    /\ closeCode = [c \in Conns |-> 0]
    /\ SideIdle
    /\ InitLimiter

InitRealtime == StoreMessage(0) /\ InitConnected

NextRealtime ==
    \/ SendMessage({"A"}, {1})
    \/ DeleteMessage({"B"}, {1}, {1})
    \/ Reactions({"A"}, {1}, {1}, {ValueSeq[1]})
    \/ ReadConvo({"A"}, {1})
    \/ MessageStatus({"A"}, {1}, {1})
    \/ ClientMessage("w2", "ping")

\* every handler that can take a step does
SpecRealtime == InitRealtime /\ [][NextRealtime]_vars /\ WF_vars(NextRealtime)

----------------------------------------------------------------------------
(* B, who sent message 1, and A, who received it, leave conversation 1 and *)
(* go on calling                                                           *)

NextOutsider ==
    \/ \E u \in Users : LeaveQuiet(u, 1)
    \/ Accept("B", 1)
    \/ \E muted \in {0, 1} : Mute("B", 1, muted)
    \/ DeleteMessage({"B"}, {1}, {1})
    \/ ReadConvo({"B"}, {1})
    \/ Reactions({"A"}, {1}, {1}, {ValueSeq[1]})
    \/ MessageStatus({"A"}, {1}, {1})

SpecOutsider == InitMessage(0) /\ [][NextOutsider]_vars

\* the identities a batch call asks for
DidLists == UNION {[1..n -> Users] : n \in 0..MaxDids}
PutBodies == {"absent"} \X {"true", "false"} \X {"absent"}

NextPresence ==
    \/ PutPrivacy({"A"}, PutBodies)
    \/ SetPresence({"B"})
    \/ BatchPresence({"A"}, DidLists)

SpecPresence == InitEmpty /\ [][NextPresence]_vars

NextDeleted ==
    \/ TickMs
    \/ DeleteMessage({"B"}, {1}, {1})
    \/ GetMessages({"A"}, {1})
    \/ SyncLog({"A"})

SpecDeleted == InitMessage(1) /\ [][NextDeleted]_vars

\* the scenario's calls are made one after the other: a call starts when the
\* call before it has answered
InTurn == InProgress = {}

NextScenario ==
    \/ TickMs
    \/ InTurn /\ Accept("B", 1)
    \/ \E s \in Slots : InTurn /\ SendMessage_member(s, "A", 1)
    \/ \E s \in Slots : SendMessage_insertMessage(s)
    \/ \E s \in Slots : SendMessage_updateConvo(s)
    \/ \E s \in Slots : SendMessage_insertEvent(s)
    \/ \E s \in Slots : SendMessage_updateMember(s)
    \/ \E s \in Slots, u \in Users : InTurn /\ SyncLog_members(s, u)
    \/ \E s \in Slots : SyncLog_events(s)
    \/ \E s \in Slots : InTurn /\ Status_member(s, "markRead", "B", 1, 1)
    \/ \E s \in Slots : Status_getMessage(s)
    \/ \E s \in Slots : MarkRead_existingStatus(s)
    \/ \E s \in Slots : MarkRead_upsert(s)
    \/ \E s \in Slots : Status_insertEvent(s)

SpecScenario == InitDirect /\ [][NextScenario]_vars

NextSend ==
    \/ SendMessage(Users, ConvoIds)
    \/ Leave("B", 1)

SpecSend == InitDirect /\ [][NextSend]_vars

NextAppend ==
    \/ SendMessage({"A"}, {1})
    \/ DeleteMessage({"B"}, {1}, {1})
    \/ Reactions({"A"}, {1}, {1}, {ValueSeq[1]})
    \/ ReadConvo({"A"}, {1})
    \/ MessageStatus({"A"}, {1}, {1})

SpecAppend == InitMessage(0) /\ [][NextAppend]_vars

\* the conversation exists one millisecond before the clock reading gains a
\* base-36 digit (ClockStart is written "10", the reading before it "z")
InitRollover == StoreDirectAt(ClockStart - 1) /\ InitSockets

NextRollover ==
    \/ TickMs
    \/ SendMessage(Users, {1})

SpecRollover == InitRollover /\ [][NextRollover]_vars

NextLimiter ==
    \/ TickWindow
    \/ \E ip \in Addrs, cred \in {"valid", "invalid"} : Handshake("w1", ip, cred, "A")
    \/ ClientClose("w1")
    \/ CloseEvent("w1")
    \/ NewSocket("w1")
    \/ broadcastPresence

SpecLimiter == InitDirect /\ [][NextLimiter]_vars

\* address ip1 has just failed MAX_AUTH_FAILURES times in a row, at ClockStart,
\* and the sockets of those attempts are gone
LimiterLocked ==
    /\ authFailures = [ip \in Addrs |->
          [exists |-> TRUE, count |-> MAX_AUTH_FAILURES, lastAttempt |-> ClockStart]]
    /\ authLog = [i \in 1..MAX_AUTH_FAILURES |->
          [ip |-> "ip1", cred |-> "invalid", at |-> ClockStart, outcome |-> "failed"]]

InitLocked == StoreDirect /\ SocketsIdle /\ LimiterLocked

NextReset ==
    \/ TickWindow
    \/ \E ip \in Addrs, cred \in Credentials : Handshake("w1", ip, cred, "A")
    \/ ClientClose("w1")
    \/ CloseEvent("w1")
    \/ NewSocket("w1")
    \/ broadcastPresence

SpecReset == InitLocked /\ [][NextReset]_vars

----------------------------------------------------------------------------
(* Events fanned out to conversation 1 while A and B are both connected    *)

NextFanout ==
    \/ \E exclude \in {""} \cup Users : sendToConversation(1, exclude)
    \/ Cast_conversation
    \/ Cast_members
    \/ Connect("w2", "B")
    \/ \E c \in Conns : ClientClose(c)
    \/ \E c \in Conns : NewSocket(c)
    \/ broadcastPresence

SpecFanout == InitRealtime /\ [][NextFanout]_vars

----------------------------------------------------------------------------
(* Two connections of A opening and closing, close events repeated         *)

NextClose ==
    \/ \E c \in Conns : Connect(c, "A")
    \/ \E c \in Conns : ClientClose(c)
    \/ \E c \in Conns : RepeatClose(c)
    \/ \E c \in Conns : NewSocket(c)
    \/ broadcastPresence

SpecClose == InitDirect /\ [][NextClose]_vars

----------------------------------------------------------------------------
(* Delivery and read marks on message 1 of B, asked for by B and by A       *)

NextRecipient ==
    \/ MessageStatus(Users, {1}, {1})
    \/ GetMessages(Users, {1})

SpecRecipient == InitMessage(0) /\ [][NextRecipient]_vars

----------------------------------------------------------------------------
(* Delivery and read marks on message 1 of B while the members turn their  *)
(* read receipts off and on                                                *)

ReceiptBodies == {"true", "false"} \X {"absent"} \X {"absent"}

NextMarks ==
    \/ PutPrivacy(Users, ReceiptBodies)
    \/ MessageStatus(Users, {1}, {1})

SpecMarks == InitMessage(0) /\ [][NextMarks]_vars

----------------------------------------------------------------------------
(* The status of a message asked for, for each set of recipients and each  *)
(* set of rows the recipients' marks can have left                         *)

InitOverall ==
    /\ StoreEmpty /\ SocketsClosed /\ InitLimiter
    /\ cast = NoCast
    /\ typing = NoTyping
    /\ rateLimitStore = [id \in Identifiers |-> NoRecord]
    /\ statusQuery \in Queries

NextOverall == GetStatus

SpecOverall == InitOverall /\ [][NextOverall]_vars

----------------------------------------------------------------------------
(* The presence of A, who has turned its online status off, written by     *)
(* POST /chat/presence and by A's connections                              *)

OnlineStatusHidden ==
    [u \in Users |->
        IF u = "A" THEN [exists |-> TRUE, showReadReceipts |-> 1,
                         showOnlineStatus |-> 0, showLastSeen |-> 1]
        ELSE NoPrivacy]

InitPrivate == StoreDirectWith(ClockStart, OnlineStatusHidden) /\ InitSockets

NextPrivate ==
    \/ TickMs
    \/ SetPresence({"A"})
    \/ Connect("w1", "A")
    \/ ClientClose("w1")
    \/ NewSocket("w1")
    \/ broadcastPresence

SpecPrivate == InitPrivate /\ [][NextPrivate]_vars

----------------------------------------------------------------------------
(* Requests from two addresses passing the rate limiter: one of them up to  *)
(* the limit and beyond, across the end of its window                      *)

NextRate ==
    \/ TickLimit
    \/ \E id \in Identifiers : rateLimitMiddleware(id)
    \/ LimitCleanup

SpecRate == InitDirect /\ [][NextRate]_vars

----------------------------------------------------------------------------
(* A and B paging through their conversations: every conversation was      *)
(* opened by A with B at one of two times, A has left some of them, and B  *)
(* all but the last                                                        *)

ListTimes == {ClockStart - 1, ClockStart}

ListMembers(left, time) ==
    [k \in ConvoIds \X Users |->
        IF k[2] = "A"
        THEN [NoMember EXCEPT !.status = IF k[1] \in left THEN "left" ELSE "accepted",
                              !.joinedAt = time[k[1]]]
        ELSE [NoMember EXCEPT !.status = IF k[1] < MaxConvos THEN "left" ELSE "request",
                              !.joinedAt = time[k[1]]]]

StoreList ==
    /\ clock = ClockStart
    /\ nextMsg = 1
    /\ nextConvo = MaxConvos + 1
    /\ \E time \in [ConvoIds -> ListTimes], left \in SUBSET ConvoIds :
          /\ conversation = [c \in ConvoIds |->
                               [createdAt |-> time[c], updatedAt |-> time[c]]]
          /\ conversation_member = ListMembers(left, time)
    /\ message = [m \in MsgIds |-> NoMessage]
    /\ message_event = <<>>
    /\ message_status = [k \in MsgIds \X Users |-> NoStatus]
    /\ req = [s \in Slots |-> IdleReq]
    /\ resp = IdleReq
    /\ client = [u \in Users |-> NewClient]
    /\ chat_privacy = [u \in Users |-> NoPrivacy]

InitList == StoreList /\ InitSockets

NextList == ListConvos(Users)

SpecList == InitList /\ [][NextList]_vars

----------------------------------------------------------------------------
(* The members looking at conversation 1 while its messages are deleted:   *)
(* B sent message 1, then A or B sent message 2, both before ClockStart     *)

StoreUnread(second) ==
    /\ clock = ClockStart
    /\ nextMsg = 3
    /\ nextConvo = 2
    /\ conversation = [c \in ConvoIds |->
          IF c = 1 THEN [createdAt |-> SeedTime(-1), updatedAt |-> SeedTime(1)]
          ELSE NoConvo]
    /\ conversation_member =
          [DirectConvo(1, "A", "B", SeedTime(-1)) EXCEPT
              ![<<1, "B">>].lastReadRev = IF second = "B" THEN SeedRev(1) ELSE SeedRev(0),
              ![<<1, "A">>].lastReadRev = IF second = "A" THEN SeedRev(1) ELSE NoRev]
    /\ message = [m \in MsgIds |->
          IF m \in {1, 2}
          THEN [conversationId |-> 1, senderDid |-> IF m = 1 THEN "B" ELSE second,
                text |-> MessageText, reactions |-> <<>>, rev |-> SeedRev(m - 1),
                createdAt |-> SeedTime(m - 1), deletedAt |-> 0]
          ELSE NoMessage]
    /\ message_event = [i \in 1..2 |->
          Event(1, "message", "logCreateMessage", SeedRev(i - 1), SeedTime(i - 1),
                i, "", IF i = 1 THEN "B" ELSE second, "")]
    /\ message_status = [k \in MsgIds \X Users |-> NoStatus]
    /\ req = [s \in Slots |-> IdleReq]
    /\ resp = IdleReq
    /\ client = [u \in Users |-> NewClient]
    /\ chat_privacy = [u \in Users |-> NoPrivacy]

InitUnread == (\E second \in Users : StoreUnread(second)) /\ InitSockets

NextUnread ==
    \/ DeleteMessage(Users, {1}, {1, 2})
    \/ GetConvo(Users, {1})

SpecUnread == InitUnread /\ [][NextUnread]_vars

----------------------------------------------------------------------------
(* Both members reacting to one message with no reaction on it yet         *)

NextLost == Reactions(Users, {1}, {1}, {ValueSeq[1]})

SpecLost == InitMessage(0) /\ [][NextLost]_vars

----------------------------------------------------------------------------
(* getOrCreate calls made one after the other; requests are accepted and   *)
(* members leave between the calls                                         *)

NextSequel ==
    \/ TickMs
    \/ \E u \in Users, c \in ConvoIds :
          InTurn /\ conversation_member[<<c, u>>].status = "request" /\ Accept(u, c)
    \/ \E u \in Users, c \in ConvoIds : InTurn /\ Leave(u, c)
    \/ \E s \in Slots, u \in Users, o \in Users : InTurn /\ GetOrCreate_find(s, u, o)
    \/ \E s \in Slots : GetOrCreate_count(s)
    \/ \E s \in Slots : GetOrCreate_fetch(s)
    \/ \E s \in Slots : GetOrCreate_insertConvo(s)
    \/ \E s \in Slots : GetOrCreate_insertMember(s)
    \/ \E s \in Slots : GetOrCreate_selectMembers(s)

SpecSequel == InitEmpty /\ [][NextSequel]_vars

----------------------------------------------------------------------------
(* Typing frames from A and B, connected, while they leave conversation 1  *)
(* and the second connection closes and is opened again by either of them  *)

NextTyping ==
    \/ handleTypingIndicator(ConvoIds)
    \/ \E u \in Users : Leave(u, 1)
    \/ \E u \in Users : Connect("w2", u)
    \/ ClientClose("w2")
    \/ NewSocket("w2")
    \/ broadcastPresence

SpecTyping == InitRealtime /\ [][NextTyping]_vars

----------------------------------------------------------------------------
(* Typing frames and events fanned out to conversation 1 while A and B,    *)
(* both connected, leave it                                                *)

NextScoped ==
    \/ handleTypingIndicator({1})
    \/ \E exclude \in {""} \cup Users : sendToConversation(1, exclude)
    \/ Cast_conversation
    \/ Cast_members
    \/ \E u \in Users : Leave(u, 1)

SpecScoped == InitRealtime /\ [][NextScoped]_vars

----------------------------------------------------------------------------
(* A sending to conversation 1 and marking it read, calls overlapping      *)

NextReadRev ==
    \/ TickMs
    \/ SendMessage({"A"}, {1})
    \/ ReadConvo({"A"}, {1})

SpecReadRev == InitDirect /\ [][NextReadRev]_vars

----------------------------------------------------------------------------
(* Sockets of A and B connecting, being refused, closing and being swept   *)

NextRegistry ==
    \/ TickQuantum
    \/ Sweep
    \/ Connect("w1", "A")
    \/ \E u \in Users : Connect("w2", u)
    \/ ConnectRefused("w2")
    \/ \E c \in Conns : ClientClose(c)
    \/ \E c \in Conns : CloseEvent(c)

SpecRegistry == InitDirect /\ [][NextRegistry]_vars

----------------------------------------------------------------------------
(* A and B, contacts of each other, each on a socket of its own, close and *)
(* connect again                                                           *)

NextReconnect ==
    \/ \E c \in Conns : ClientClose(c)
    \/ \E c \in Conns : NewSocket(c)
    \/ Connect("w1", "A")
    \/ Connect("w2", "B")
    \/ broadcastPresence

SpecReconnect == InitRealtime /\ [][NextReconnect]_vars

----------------------------------------------------------------------------
(* Claims                                                                  *)

Range(q) == {q[i] : i \in 1..Len(q)}
Last(q) == q[Len(q)]

\* the log entries of the conversations in which u holds a non-left membership
LogOf(u) ==
    {i \in 1..Len(message_event) :
        ActiveStatus(conversation_member[<<message_event[i].conversationId, u>>].status)}

\* C1: a member who polls syncLog, each time with the cursor of the previous
\* response, has received the log entries of its non-left conversations in
\* ascending revision order, none twice, and none skipped: every entry at or
\* below the member's cursor (no later poll returns it) has been received.
C1_PollingComplete ==
    \A u \in Users :
        LET got == client[u].got
            cursor == client[u].cursor
        IN  /\ \A i, j \in 1..Len(got) : i < j => got[i] # got[j]
            /\ \A i, j \in 1..Len(got) :
                  i < j => LexLess(EventRev(got[i]), EventRev(got[j]))
            /\ \A e \in LogOf(u) :
                  (cursor # NoRev /\ ~LexLess(cursor, EventRev(e))) => e \in Range(got)

\* C7: the cursor syncLog returns is the revision of the last entry it
\* included, or the input cursor when it returns no entries, for every caller.
C7_CursorReturned ==
    resp.op = "syncLog" =>
        resp.out = IF resp.logs = <<>> THEN resp.cursor ELSE EventRev(Last(resp.logs))

\* C2: once getOrCreateDirect by A and by B have both completed, started with
\* no conversation of the two, exactly one conversation holds non-left
\* memberships of both, and both calls returned it.
C2_OneDirectConvo ==
    (InProgress = {} /\ client["A"].convo # 0 /\ client["B"].convo # 0) =>
        /\ Cardinality(SharedConvos("A", "B")) = 1
        /\ client["A"].convo = client["B"].convo

\* C3: a membership row's status only ever changes request -> accepted,
\* request -> left or accepted -> left; once left it stays left.
C3_LeftTerminal ==
    [][\A k \in ConvoIds \X Users :
          LET old == conversation_member[k].status
              new == conversation_member'[k].status
          IN  (old # "none" /\ old # new) =>
                 <<old, new>> \in {<<"request", "accepted">>, <<"request", "left">>,
                                   <<"accepted", "left">>}]_vars

EventsOf(type, m) ==
    {i \in 1..Len(message_event) :
        message_event[i].type = type /\ message_event[i].messageId = m}

\* the reaction pairs of message m that replaying the first n log entries gives
RECURSIVE ReactionsInLog(_, _)
ReactionsInLog(m, n) ==
    IF n = 0 THEN {}
    ELSE LET e == message_event[n]
             before == ReactionsInLog(m, n - 1)
         IN  IF e.messageId # m THEN before
             ELSE IF e.type = "logAddReaction" THEN before \cup {<<e.value, e.did>>}
             ELSE IF e.type = "logRemoveReaction" THEN before \ {<<e.value, e.did>>}
             ELSE before

Settled(m) == \A s \in InProgress : req[s].mid # m

\* C4: a mutation and its log entry are one atomic unit: whenever no operation
\* on a message is in progress (also after one failed at a storage step), the
\* message row exists iff the log has a message-created entry of the row's
\* revision, the row has a soft-delete time iff the log has a message-deleted
\* entry for it, and the stored reactions and status rows are exactly those of
\* the log's reaction and status entries.
C4_AtomicUnit ==
    \A m \in MsgIds : Settled(m) =>
        /\ message[m].conversationId # 0 <=>
              \E i \in EventsOf("logCreateMessage", m) : EventRev(i) = message[m].rev
        /\ message[m].deletedAt # 0 <=> EventsOf("logDeleteMessage", m) # {}
        /\ Range(message[m].reactions) = ReactionsInLog(m, Len(message_event))
        /\ \A u \in Users :
              message_status[<<m, u>>].exists <=>
                 \E i \in EventsOf("messageStatusUpdate", m) : message_event[i].did = u

Has(reactions, v, u) == \E i \in 1..Len(reactions) : reactions[i] = <<v, u>>
CountOf(reactions, u) == Cardinality({i \in 1..Len(reactions) : reactions[i][2] = u})

\* the handler in slot s reads the message it is to react to, and the message
\* is there for it
ReadsReactions(s) ==
    /\ At(s, "addReaction", "getMessage")
    /\ req'[s] # req[s]
    /\ MessageIn(req[s].mid, req[s].cid) /\ message[req[s].mid].deletedAt = 0

Rejected(s) ==
    /\ resp'.op = "addReaction" /\ resp'.res = "400" /\ req'[s] = IdleReq
    /\ message' = message /\ message_event' = message_event

\* C5: under every interleaving of addReaction and removeReaction calls no
\* message ever holds more than 5 reactions of one identity, and an
\* addReaction that finds 5 reactions of its caller on the message, none of
\* them the value it is to add, is rejected with the reaction list and the
\* event log left as they were.
C5_ReactionCap ==
    /\ [](\A m \in MsgIds, u \in Users :
             CountOf(message[m].reactions, u) <= MaxReactionsPerUser)
    /\ [][\A s \in Slots :
            (/\ ReadsReactions(s)
             /\ CountOf(message[req[s].mid].reactions, req[s].did) >= MaxReactionsPerUser
             /\ ~Has(message[req[s].mid].reactions, req[s].val, req[s].did))
            => Rejected(s)]_vars

\* C5 as stated: every addReaction that finds 5 reactions of its caller on the
\* message is rejected, whatever value it is to add.
C5_AsStated ==
    [][\A s \in Slots :
         (/\ ReadsReactions(s)
          /\ CountOf(message[req[s].mid].reactions, req[s].did) >= MaxReactionsPerUser)
         => Rejected(s)]_vars

C5_Witness ==
    /\ resp.op = "addReaction" /\ resp.res = "400"
    /\ CountOf(message[resp.mid].reactions, resp.did) = MaxReactionsPerUser

NoDuplicates(reactions) ==
    \A i, j \in 1..Len(reactions) : i # j => reactions[i] # reactions[j]

\* C6: addReaction is idempotent: when the pair (value, caller) is already on
\* the message the call answers without error with the message as it is,
\* writes neither the message nor the log, and no reaction list ever holds a
\* pair twice.
C6_AddIdempotent ==
    /\ [](\A m \in MsgIds : NoDuplicates(message[m].reactions))
    /\ [][\A s \in Slots :
            (/\ ReadsReactions(s)
             /\ Has(message[req[s].mid].reactions, req[s].val, req[s].did))
            => /\ resp'.op = "addReaction" /\ resp'.res = "ok" /\ req'[s] = IdleReq
               /\ resp'.seen = message[req[s].mid].reactions
               /\ message' = message /\ message_event' = message_event]_vars

C6_Witness ==
    /\ resp.op = "addReaction" /\ resp.res = "ok" /\ resp.pc = "getMessage"
    /\ Has(message[resp.mid].reactions, resp.val, resp.did)
    /\ resp.seen = message[resp.mid].reactions

\* C8: once a status row holds a delivered time, no step of a message markRead
\* by its recipient clears that time or puts another in its place, however the
\* call interleaves with markDelivered calls and message fetches.
C8_DeliveredKept ==
    [][\A s \in Slots, k \in MsgIds \X Users :
         (/\ At(s, "markRead", "upsert") /\ req'[s] # req[s]
          /\ k = <<req[s].mid, req[s].did>>
          /\ message_status[k].deliveredAt # 0)
         => message_status'[k].deliveredAt = message_status[k].deliveredAt]_vars

\* C9: a registered connection whose last activity (inbound frame or pong) is
\* more than 90 seconds old is terminated by the 30-second sweep and then
\* removed from the registry: no open registered connection is ever more than
\* 90 + 30 seconds silent, and a registered connection that is more than 90
\* seconds silent leaves the registry unless it is heard from again.
C9_StaleSwept ==
    /\ [](\A c \in Conns :
            (Registered(c) /\ readyState[c] = "OPEN")
            => clock - connectionMeta[c].lastHeartbeat
                  <= CONNECTION_TIMEOUT + HEARTBEAT_INTERVAL)
    /\ \A c \in Conns :
          (Registered(c) /\ clock - connectionMeta[c].lastHeartbeat > CONNECTION_TIMEOUT)
          ~> (\/ ~Registered(c)
              \/ clock - connectionMeta[c].lastHeartbeat <= CONNECTION_TIMEOUT)

C9_Witness ==
    \E c \in Conns :
        /\ readyState[c] = "CLOSED" /\ ~Registered(c)
        /\ connectionMeta[c].userDid # ""
        /\ clock - connectionMeta[c].lastHeartbeat > CONNECTION_TIMEOUT
        /\ frames[c] > 0

\* the step a handler answers from when it has made its change
LastStep ==
    [op \in Mutators |-> IF op = "sendMessage" THEN "updateMember"
                         ELSE IF op = "addReaction" THEN "reselect"
                         ELSE "insertEvent"]
\* the realtime event of each mutation
PushOf ==
    [op \in Mutators |-> IF op = "sendMessage" THEN "new_message"
                         ELSE IF op = "deleteMessage" THEN "message_deleted"
                         ELSE IF op \in {"addReaction", "removeReaction"} THEN "reaction"
                         ELSE "read_receipt"]

Succeeded(op) == resp.op = op /\ resp.res = "ok" /\ resp.pc = LastStep[op]

\* c is an open registered connection of another member of the conversation
Affected(c) ==
    \E u \in Users \ {resp.did} :
        /\ c \in connections[u] /\ readyState[c] = "OPEN"
        /\ ActiveStatus(conversation_member[<<resp.cid, u>>].status)

\* C10: when a mutation has succeeded, its realtime event is pushed to every
\* connection registered for another member of the conversation.
C10_EventPushed ==
    \A c \in Conns, op \in Mutators :
        (Succeeded(op) /\ Affected(c)) ~> (\E f \in sent[c] : f[1] = PushOf[op])

Inactive(c, u) == ~ActiveStatus(conversation_member[<<c, u>>].status)

\* a step of a call by u on conversation c
StepOf(u, c) ==
    \/ Accept(u, c) \/ Leave(u, c) \/ \E muted \in {0, 1} : Mute(u, c, muted)
    \/ \E s \in Slots :
          /\ req'[s] # req[s]
          /\ IF Free(s) THEN req'[s].did = u /\ req'[s].cid = c
             ELSE req[s].did = u /\ req[s].cid = c

\* C11: an identity with no membership, or only a left membership, in a
\* conversation cannot change it: no step of a call it makes on the
\* conversation or its messages changes the conversation's messages, its
\* memberships or the event log.
C11_OutsiderChangesNothing ==
    [][\A u \in Users, c \in ConvoIds :
         (Inactive(c, u) /\ StepOf(u, c))
         => /\ message' = message
            /\ conversation_member' = conversation_member
            /\ message_event' = message_event]_vars


\* the caller's stored setting has online status switched off
OnlineStatusOff(u) == chat_privacy[u].exists /\ chat_privacy[u].showOnlineStatus = 0
\* the answer covers the identities asked for, up to the batch size, and
\* shows each of them offline with no last-seen time
AllBlocked(r) ==
    /\ Len(r.presences) = (IF Len(r.dids) < BatchLimit THEN Len(r.dids) ELSE BatchLimit)
    /\ \A i \in 1..Len(r.presences) :
          /\ r.presences[i].did = r.dids[i]
          /\ r.presences[i].isOnline = FALSE
          /\ r.presences[i].lastSeenAt = 0
\* a batch presence call arrives in this step
BatchCallBy(u) ==
    \/ \E s \in Slots : Free(s) /\ req'[s].op = "batchPresence" /\ req'[s].did = u
    \/ /\ resp' # resp
       /\ resp'.op = "batchPresence" /\ resp'.pc = "idle" /\ resp'.did = u

\* C12: a batch presence call made by an identity whose own privacy setting
\* has online status switched off is answered at once, without reading
\* anyone's presence, and the answer shows every identity it covers as
\* offline with no last-seen time
C12_PresenceReciprocity ==
    [][\A u \in Users :
         (OnlineStatusOff(u) /\ BatchCallBy(u))
         => /\ \A s \in Slots : req'[s] = req[s]
            /\ resp'.op = "batchPresence" /\ resp'.did = u
            /\ AllBlocked(resp')]_vars

\* a blocked answer about an identity that is online and shares it
C12_Witness ==
    /\ resp.op = "batchPresence" /\ resp.pc = "idle" /\ resp.res = "ok"
    /\ OnlineStatusOff(resp.did)
    /\ Len(resp.dids) > BatchLimit
    /\ \E i \in 1..Len(resp.presences) :
          /\ resp.presences[i].did # resp.did
          /\ user_presence[resp.presences[i].did].isOnline = 1
          /\ ~chat_privacy[resp.presences[i].did].exists


\* deleteMessage has succeeded on message m: the row is marked and the
\* handler has appended its entry and answered
DeleteDone(m) ==
    /\ message[m].deletedAt # 0
    /\ \E i \in 1..Len(message_event) :
          message_event[i].type = "logDeleteMessage" /\ message_event[i].messageId = m
\* a read answers in this step
ReadAnswers == resp' # resp /\ resp'.op \in {"getMessages", "syncLog"} /\ resp'.res = "ok"

\* C13: once deleteMessage has succeeded on a message, whatever a read that
\* answers afterwards returns about that message (the message listing, the
\* entries of a syncLog replay) keeps its id, sender and creation time and
\* has neither its text nor its reactions
C13_DeletedCarriesNoText ==
    [][\A m \in MsgIds :
         (DeleteDone(m) /\ ReadAnswers)
         => /\ \A v \in resp'.views :
                 v.id = m => /\ v.text = "" /\ v.reactions = <<>>
                             /\ v.sender = message[m].senderDid
                             /\ v.sentAt = message[m].createdAt
            /\ \A i \in 1..Len(resp'.logs) :
                 LET e == message_event[resp'.logs[i]]
                 IN  e.messageId = m => e.text = ""]_vars


BothAccepted(c) == \A u \in Users : conversation_member[<<c, u>>].status = "accepted"
\* sendMessage by A has answered with message m, the only entry of the log
OnlySent(m) ==
    /\ message[m].senderDid = "A" /\ message[m].conversationId = 1
    /\ \A s \in InProgress : req[s].op # "sendMessage"
    /\ Len(message_event) = 1
    /\ message_event[1].type = "logCreateMessage" /\ message_event[1].messageId = m
\* markRead by B on message m has answered: its entry is in the log
ReadBy(m) ==
    \E i \in 1..Len(message_event) :
       /\ message_event[i].type = "messageStatusUpdate" /\ message_event[i].messageId = m
       /\ message_event[i].did = "B" /\ message_event[i].status = "read"
\* syncLog by u, called with this cursor, answers in this step
SyncAnswers(u, cursor) ==
    \E s \in Slots :
       /\ At(s, "syncLog", "events") /\ req[s].did = u /\ req[s].cursor = cursor
       /\ req'[s] = IdleReq

\* C14: A and B are both accepted in conversation 1 and A's sendMessage has
\* returned revision r1. A syncLog by B with no cursor then returns exactly
\* one entry, the message-created entry with revision r1; and once B's
\* markRead on the message has succeeded, a syncLog by A from cursor r1
\* returns a status entry reporting read for B
C14_EndToEnd ==
    [][\A m \in MsgIds :
         /\ (BothAccepted(1) /\ OnlySent(m) /\ SyncAnswers("B", NoRev))
            => /\ Len(resp'.logs) = 1
               /\ message_event[resp'.logs[1]].type = "logCreateMessage"
               /\ message_event[resp'.logs[1]].rev = message[m].rev
         /\ (BothAccepted(1) /\ MessageIn(m, 1) /\ message[m].senderDid = "A"
               /\ ReadBy(m) /\ SyncAnswers("A", message[m].rev))
            => \E i \in 1..Len(resp'.logs) :
                  LET e == message_event[resp'.logs[i]]
                  IN  /\ e.type = "messageStatusUpdate" /\ e.messageId = m
                      /\ e.did = "B" /\ e.status = "read"]_vars


\* a sendMessage call by u on c arrives in this step: its handler goes on to
\* its writes, or answers at once
SendArrives(u, c) ==
    \/ \E s \in Slots :
          Free(s) /\ req'[s].op = "sendMessage" /\ req'[s].did = u /\ req'[s].cid = c
    \/ /\ resp' # resp
       /\ resp'.op = "sendMessage" /\ resp'.pc = "idle"
       /\ resp'.did = u /\ resp'.cid = c

\* C15: a sendMessage call that finds the caller's membership in the
\* conversation absent or left is answered with an error at once: no handler
\* goes on to write, and no message row, log entry, conversation or
\* membership changes
C15_SendRejected ==
    [][\A u \in Users, c \in ConvoIds :
         (Inactive(c, u) /\ SendArrives(u, c))
         => /\ resp'.op = "sendMessage" /\ resp'.res \in {"403", "404"}
            /\ req' = req
            /\ message' = message /\ message_event' = message_event
            /\ conversation' = conversation
            /\ conversation_member' = conversation_member]_vars

\* a member who has sent a message and then left is refused
C15_Witness ==
    /\ resp.op = "sendMessage" /\ resp.res = "403"
    /\ conversation_member[<<resp.cid, resp.did>>].status = "left"
    /\ \E m \in MsgIds : message[m].senderDid = resp.did
    /\ InProgress = {}


\* the message-created entries of conversation c that carry revision r
CreatedWith(c, r) ==
    {i \in 1..Len(message_event') :
        /\ message_event'[i].conversationId = c
        /\ message_event'[i].type = "logCreateMessage"
        /\ message_event'[i].rev = r}

\* C16: when sendMessage(me, c) answers with revision r, the store holds a
\* message of c with revision r, the log of c holds exactly one
\* message-created entry with revision r, and me's membership in c has
\* lastReadRev = r
C16_SendPostcondition ==
    [][\A s \in Slots :
         (At(s, "sendMessage", "updateMember") /\ req'[s] = IdleReq)
         => LET r == req[s].rev
                c == req[s].cid
            IN  /\ \E m \in MsgIds : message'[m].conversationId = c /\ message'[m].rev = r
                /\ Cardinality(CreatedWith(c, r)) = 1
                /\ conversation_member'[<<c, req[s].did>>].lastReadRev = r]_vars


\* C17: the event log is append-only: in every step the entries already in
\* the log stay where they are, unchanged in conversation, type, payload and
\* revision, and none is removed; a step can only add entries at the end
C17_AppendOnly ==
    [][/\ Len(message_event') >= Len(message_event)
       /\ \A i \in 1..Len(message_event) : message_event'[i] = message_event[i]]_vars

\* the log has grown past its first entry: a delete entry follows the
\* entry of the message it deletes
C17_Witness ==
    \E i, j \in 1..Len(message_event) :
       /\ i < j
       /\ message_event[i].type = "logCreateMessage"
       /\ message_event[j].type = "logDeleteMessage"
       /\ message_event[j].messageId = message_event[i].messageId


\* C18: revisions are unique: no two entries of the log carry the same
\* revision and no two messages carry the same revision, whenever they were
\* generated
C18_RevisionsUnique ==
    /\ \A i, j \in 1..Len(message_event) :
          i # j => message_event[i].rev # message_event[j].rev
    /\ \A m, n \in MsgIds :
          (m # n /\ message[m].conversationId # 0 /\ message[n].conversationId # 0)
          => message[m].rev # message[n].rev


\* C19: revision order follows generation order: of two messages whose
\* revisions were generated at different clock readings, the one generated
\* at the later reading has a revision that does not compare below the
\* other's
C19_OrderFollowsClock ==
    \A m, n \in MsgIds :
       (/\ message[m].conversationId # 0 /\ message[n].conversationId # 0
        /\ message[m].createdAt < message[n].createdAt)
       => ~LexLess(message[n].rev, message[m].rev)


\* the failures recorded for ip before attempt k
FailuresBefore(ip, k) ==
    {i \in 1..(k - 1) : authLog[i].ip = ip /\ authLog[i].outcome = "failed"}
\* the MAX_AUTH_FAILURES latest of them
LatestFailures(ip, k) ==
    {i \in FailuresBefore(ip, k) :
        Cardinality({j \in FailuresBefore(ip, k) : j > i}) < MAX_AUTH_FAILURES}
Span(S) == {authLog[j].at - authLog[i].at : i, j \in S}
\* attempt k finds the address locked out: its latest five failures lie
\* within one window, and the window since the last of them has not elapsed
LockedOutAt(k) ==
    LET S == LatestFailures(authLog[k].ip, k)
    IN  /\ Cardinality(S) = MAX_AUTH_FAILURES
        /\ \A d \in Span(S) : d < AUTH_FAILURE_WINDOW
        /\ \A i \in S : authLog[k].at - authLog[i].at < AUTH_FAILURE_WINDOW
\* five failures of the address lie within some window before attempt k
FiveInWindowBefore(k) ==
    \E S \in SUBSET FailuresBefore(authLog[k].ip, k) :
       /\ Cardinality(S) = MAX_AUTH_FAILURES
       /\ \A d \in Span(S) : d <= AUTH_FAILURE_WINDOW

\* C20: an attempt from an address that has recorded 5 failures within a
\* 60-second window is refused whatever its credential, and the limiter
\* refuses no attempt from an address whose recorded failures never numbered
\* 5 within a 60-second window
C20_LimiterWindow ==
    \A k \in 1..Len(authLog) :
       /\ LockedOutAt(k) => authLog[k].outcome \in {"limited", "missing"}
       /\ authLog[k].outcome = "limited" => FiveInWindowBefore(k)


\* the connection attempt made in this step, if the step is one
Attempted == Len(authLog') = Len(authLog) + 1
ThisAttempt == authLog'[Len(authLog')]

\* C21: a locked-out address (its count has reached the maximum) is refused
\* while less than 60 seconds have passed since its last recorded failure,
\* and the refused attempt leaves the limiter's entry as it was; once the 60
\* seconds have passed, an attempt with a valid credential is accepted and
\* leaves no failures counted, and one with an invalid credential counts as
\* the first failure
C21_LockoutResets ==
    [][\A ip \in Addrs :
         (/\ Attempted /\ ThisAttempt.ip = ip /\ ThisAttempt.cred # "missing"
          /\ authFailures[ip].exists /\ authFailures[ip].count >= MAX_AUTH_FAILURES)
         => IF clock - authFailures[ip].lastAttempt >= AUTH_FAILURE_WINDOW
            THEN /\ ThisAttempt.cred = "valid"
                       => /\ ThisAttempt.outcome = "ok"
                          /\ ~authFailures'[ip].exists /\ authFailures'[ip].count = 0
                 /\ ThisAttempt.cred = "invalid"
                       => /\ ThisAttempt.outcome = "failed"
                          /\ authFailures'[ip].count = 1
            ELSE /\ ThisAttempt.outcome = "limited"
                 /\ authFailures' = authFailures]_vars

\* an attempt was refused during the lockout, after the last failure, and a
\* valid attempt less than a window after that refusal was accepted
C21_Witness ==
    \E i, j \in 1..Len(authLog) :
       /\ i < j
       /\ authLog[i].outcome = "limited" /\ authLog[i].cred = "valid"
       /\ authLog[i].at > ClockStart
       /\ authLog[j].outcome = "ok"
       /\ authLog[j].at - authLog[i].at < AUTH_FAILURE_WINDOW
       /\ ~authFailures[authLog[j].ip].exists


\* the socket reached the server and was not authenticated
Unauthenticated(c) == readyState[c] # "NONE" /\ connectionMeta[c].userDid = ""

\* C22: a websocket whose authentication fails is closed with code 4001, is
\* never in the connection registry, is sent no frame (no connected
\* acknowledgment, no fan-out), and no online or offline presence broadcast
\* is started for it
C22_RefusedStaysOut ==
    \A c \in Conns :
       Unauthenticated(c)
       => /\ readyState[c] \in {"CLOSING", "CLOSED"}
          /\ closeCode[c] = UNAUTHORIZED
          /\ ~Registered(c)
          /\ sent[c] = {}
          /\ \A status \in {"online", "offline"} : presence[<<c, status>>] = NoCall

\* a refused socket is closed and gone while another identity has connected
\* and its presence broadcast has run
C22_Witness ==
    /\ \E c \in Conns : Unauthenticated(c) /\ readyState[c] = "CLOSED"
    /\ \E c \in Conns : Registered(c) /\ Frame("connected", "A") \in sent[c]
    /\ user_presence["A"].exists
    /\ clock > ClockStart

\* C23: a broadcast whose send to one connection throws still reaches every
\* other open connection it targets: when a sendToConversation call ends, each
\* open connection of a member it addresses, other than one the send threw
\* on, has been sent the event
C23_SendFailuresIsolated ==
    [][(cast.pc = "members" /\ cast'.pc = "none")
       => \A c \in Cast_targets \ {cast'.threw} :
             Frame("event", cast.conversationId) \in sent'[c]]_vars


\* a broadcastPresence call for k starts in this step
PresenceStarts(k) == presence'[k].pc = "upsert" /\ presence[k] # presence'[k]

\* C24: a close of a registered connection removes it from the registry and
\* starts an offline presence broadcast exactly when it was the last
\* connection of its identity; no step starts an offline broadcast otherwise,
\* none starts two, and a connection that has closed stays out of the registry
\* whatever close events follow
C24_OfflineOnLastClose ==
    [][\A c \in Conns :
         LET userDid == connectionMeta[c].userDid
             closes == readyState[c] = "OPEN" /\ readyState'[c] = "CLOSED"
         IN  /\ closes /\ Registered(c)
                => /\ connections' = [connections EXCEPT ![userDid] = @ \ {c}]
                   /\ PresenceStarts(<<c, "offline">>) <=> connections[userDid] = {c}
             /\ PresenceStarts(<<c, "offline">>)
                => /\ closes /\ connections[userDid] = {c}
                   /\ \A d \in Conns \ {c} : ~PresenceStarts(<<d, "offline">>)
             /\ readyState[c] = "CLOSED" /\ readyState'[c] = "CLOSED"
                => \A u \in Users : c \notin connections'[u]]_vars

\* both connections of A have closed, w1 first and without a broadcast, then
\* w2 with the offline broadcast, whose upsert is still to run
C24_Witness ==
    /\ \A c \in Conns : readyState[c] = "CLOSED" /\ connectionMeta[c].userDid = "A"
    /\ ~user_presence["A"].exists
    /\ presence[<<"w1", "offline">>] = NoCall
    /\ presence[<<"w2", "offline">>].pc = "upsert"

\* C25: no message_status row has the sender of its message as recipient
C25_NoStatusForSender ==
    \A m \in MsgIds, u \in Users :
       message_status[<<m, u>>].exists
       => message[m] # NoMessage /\ message[m].senderDid # u

\* B asked to mark its own message 1 read and was refused, while A's row
\* for that message exists
C25_Witness ==
    /\ resp.op = "markRead" /\ resp.did = "B" /\ resp.mid = 1 /\ resp.res = "400"
    /\ message[1].senderDid = "B"
    /\ message_status[<<1, "A">>].exists

\* a markDelivered or markRead call is answered in this step
MarkAnswered ==
    /\ resp' # resp
    /\ resp'.op \in {"markDelivered", "markRead"}

\* the step appends one status entry for the answered call, and no entry
\* stored before carries its revision
OneFreshStatusEntry ==
    /\ Len(message_event') = Len(message_event) + 1
    /\ LET e == message_event'[Len(message_event')]
       IN  /\ e.eventType = "status" /\ e.conversationId = resp'.cid
           /\ e.messageId = resp'.mid /\ e.did = resp'.did
           /\ \A i \in 1..Len(message_event) : message_event[i].rev # e.rev

\* C26: a markDelivered or markRead call answered with success for a member
\* who is not the sender leaves that member's message_status row in place and
\* appends exactly one status entry with a fresh revision; a call by the
\* message's sender is refused, appends nothing and leaves no row
C26_MarkPostcondition ==
    [][MarkAnswered
       => LET sender == message[resp'.mid].senderDid
          IN  /\ resp'.res = "ok" /\ sender # resp'.did
                 => /\ message_status'[<<resp'.mid, resp'.did>>].exists
                    /\ OneFreshStatusEntry
              /\ sender = resp'.did
                 => /\ resp'.res # "ok"
                    /\ message_event' = message_event
                    /\ ~message_status'[<<resp'.mid, resp'.did>>].exists]_vars

\* the derivation over the recipients: read if every recipient has a read
\* time, else delivered if every recipient has a delivered time, else sent
ReferenceStatus(recipients, statuses) ==
    LET has(r, field) == r \in DOMAIN statuses /\ statuses[r][field] # 0
    IN  IF \A r \in recipients : has(r, "readAt") THEN "read"
        ELSE IF \A r \in recipients : has(r, "deliveredAt") THEN "delivered"
        ELSE "sent"

\* C27: the status a call reports is the reference derivation over the
\* recipients of the message
C27_OverallStatus ==
    statusQuery.status # ""
    => statusQuery.status = ReferenceStatus(statusQuery.recipients, statusQuery.statuses)

\* C28: the stored presence of an identity whose privacy row turns online
\* status off has the online flag 0 and a last-seen time, whichever of
\* POST /chat/presence and broadcastPresence wrote it
C28_HiddenStaysOffline ==
    \A u \in Users :
       PrivacyBlocked(u) /\ user_presence[u].exists
       => user_presence[u].isOnline = 0 /\ user_presence[u].lastSeenAt >= ClockStart

\* the middleware answers a request of identifier id in this step
Limited(id) ==
    /\ resp'.op = "rateLimit" /\ resp'.did = id
    /\ \/ resp' # resp
       \/ rateLimitStore'[id].exists /\ rateLimitStore'[id] # rateLimitStore[id]

\* the window of identifier id is open: a request of id opened it at most
\* 60 seconds ago and the cleanup has not run since it ended
WindowOpen(id) ==
    /\ rateLimitStore[id].exists
    /\ clock - (rateLimitStore[id].resetAt - RATE_LIMIT_WINDOW) <= RATE_LIMIT_WINDOW

\* C29: no identifier is admitted more than 200 times in one window; a
\* request in an open window is admitted exactly when fewer than 200 were and
\* is then counted, a refused one changes nothing; a request past the window
\* is admitted and opens a window whose count is 1; no request touches the
\* count of another identifier
C29_RateLimit ==
    [][\A id \in Identifiers :
         /\ rateLimitStore'[id].count <= RATE_LIMIT_MAX_REQUESTS
         /\ Limited(id)
            => LET record == rateLimitStore[id]
                   admitted == resp'.res = "next"
               IN  /\ WindowOpen(id)
                      => /\ admitted <=> record.count < RATE_LIMIT_MAX_REQUESTS
                         /\ rateLimitStore'[id] =
                               IF admitted THEN [record EXCEPT !.count = @ + 1]
                               ELSE record
                   /\ ~WindowOpen(id)
                      => /\ admitted
                         /\ rateLimitStore'[id] =
                               [exists |-> TRUE, count |-> 1,
                                resetAt |-> clock + RATE_LIMIT_WINDOW]
                   /\ \A other \in Identifiers \ {id} :
                         rateLimitStore'[other] = rateLimitStore[other]]_vars

\* after its first window ip1 has opened a second one, used it up and been
\* refused in it, while ip2 is still counted in the window it opened first
C29_Witness ==
    /\ clock > ClockStart + RATE_LIMIT_WINDOW
    /\ rateLimitStore["ip1"] = [exists |-> TRUE, count |-> RATE_LIMIT_MAX_REQUESTS,
                                resetAt |-> clock + RATE_LIMIT_WINDOW]
    /\ rateLimitStore["ip2"].exists
    /\ rateLimitStore["ip2"].resetAt = ClockStart + RATE_LIMIT_WINDOW
    /\ resp.op = "rateLimit" /\ resp.did = "ip1" /\ resp.res = "429"

\* the conversations that u has not left
Listable(u) ==
    {c \in ConvoIds : /\ conversation[c] # NoConvo
                      /\ conversation_member[<<c, u>>].status \notin {"none", "left"}}

\* C30: a client that has followed the cursors to the end has been given each
\* conversation it has not left exactly once and no other, latest activity
\* first
C30_ListVisitsEachOnce ==
    \A u \in Users :
       client[u].listDone
       => LET listed == client[u].listed
          IN  /\ {listed[i] : i \in 1..Len(listed)} = Listable(u)
              /\ Len(listed) = Cardinality(Listable(u))
              /\ \A i \in 1..Len(listed), j \in 1..Len(listed) :
                    i < j => conversation[listed[i]].updatedAt
                                >= conversation[listed[j]].updatedAt

\* GET /chat/convo/:id is answered with a conversation in this step
ConvoAnswered == resp' # resp /\ resp'.op = "getConvo" /\ resp'.res = "ok"

\* the messages of conversation c with a revision greater than rev
NewerThan(c, rev) == {m \in MsgIds : MessageIn(m, c) /\ LexLess(rev, message[m].rev)}

\* C31 as stated: the unread count is zero when the lastReadRev the handler
\* read is unset, and otherwise the number of messages of the conversation
\* whose revision is greater than it
C31_UnreadCountsAll ==
    [][ConvoAnswered
       => resp'.unreadCount =
             IF resp'.cursor = NoRev THEN 0
             ELSE Cardinality(NewerThan(resp'.cid, resp'.cursor))]_vars

\* C31, amended: the unread count is zero when the lastReadRev the handler
\* read is unset, and otherwise the number of messages of the conversation
\* that are not deleted and whose revision is greater than it
C31_UnreadCount ==
    [][ConvoAnswered
       => resp'.unreadCount =
             IF resp'.cursor = NoRev THEN 0
             ELSE Cardinality({m \in NewerThan(resp'.cid, resp'.cursor) :
                                  message[m].deletedAt = 0})]_vars

\* B, who has read up to message 1, is told of one unread message, message 2
\* of A, while message 1 is deleted
C31_Witness ==
    /\ resp.op = "getConvo" /\ resp.did = "B" /\ resp.res = "ok"
    /\ resp.cursor # NoRev /\ resp.unreadCount = 1
    /\ message[1].deletedAt # 0 /\ message[2].deletedAt = 0

ReactionEvents(m) == EventsOf("logAddReaction", m) \cup EventsOf("logRemoveReaction", m)

\* the reaction pairs that applying the log entries q, in the order of q, gives
RECURSIVE Replay(_)
Replay(q) ==
    IF q = <<>> THEN {}
    ELSE LET e == message_event[q[Len(q)]]
             before == Replay(SubSeq(q, 1, Len(q) - 1))
         IN  IF e.type = "logAddReaction" THEN before \cup {<<e.value, e.did>>}
             ELSE before \ {<<e.value, e.did>>}

\* C32: the read-then-write mutations of one message are serialized: whenever
\* no addReaction or removeReaction on the message is in progress, whatever
\* the interleaving was, its reaction list holds exactly the pairs that
\* applying its reaction-added and reaction-removed log entries in revision
\* order gives (entries of equal revision in either order).
C32_NoLostReaction ==
    \A m \in MsgIds :
        (message[m].conversationId # 0 /\ Settled(m)) =>
            \E q \in OrderByRev(ReactionEvents(m)) :
                Range(message[m].reactions) = Replay(q)

\* C33: every syncLog response holds at most the page size of entries (100 in
\* the source), all of a revision strictly greater than the input cursor, in
\* strictly ascending revision order, and only of conversations in which the
\* handler found the caller's membership not left.
C33_LogPage ==
    [][\A s \in Slots :
         (At(s, "syncLog", "events") /\ req'[s] = IdleReq) =>
            LET logs == resp'.logs
            IN  /\ Len(logs) <= LogLimit
                /\ \A i \in 1..Len(logs) :
                      /\ req[s].cursor # NoRev => LexLess(req[s].cursor, EventRev(logs[i]))
                      /\ message_event[logs[i]].conversationId \in req[s].convoIds
                /\ \A i, j \in 1..Len(logs) :
                      i < j => LexLess(EventRev(logs[i]), EventRev(logs[j]))]_vars

\* the same with entries of equal revision allowed next to each other: holds
LogPageAscending ==
    [][\A s \in Slots :
         (At(s, "syncLog", "events") /\ req'[s] = IdleReq) =>
            LET logs == resp'.logs
            IN  /\ Len(logs) <= LogLimit
                /\ \A i \in 1..Len(logs) :
                      /\ req[s].cursor # NoRev => LexLess(req[s].cursor, EventRev(logs[i]))
                      /\ message_event[logs[i]].conversationId \in req[s].convoIds
                /\ \A i, j \in 1..Len(logs) :
                      i < j => ~LexLess(EventRev(logs[j]), EventRev(logs[i]))]_vars

\* the conversations in which A and B both hold a membership that is not left
DirectOf == {c \in ConvoIds : \A u \in Users :
                conversation_member[<<c, u>>].status \in {"request", "accepted"}}

RowsOf(c) == {u \in Users : conversation_member[<<c, u>>].status # "none"}

DirectAnswered == resp' # resp /\ resp'.op = "getOrCreate"

OwnerOf(c) == {u \in Users : c \in connections[u]}

TypingSent(c) == {f \in sent'[c] \ sent[c] : f[1] = "typing"}

\* C35: a typing frame from a connection is forwarded as a typing event about
\* the conversation it names and the identity that typed, only to registered
\* connections of the other identities that have a membership row in that
\* conversation, never to a connection of the identity that typed; and no
\* step of its handling creates or changes a conversation, membership,
\* message, status or event-log row.
C35_TypingForwarded ==
    [][/\ \A c \in Conns : \A f \in TypingSent(c) :
             /\ typing.pc = "members"
             /\ f[2] = <<typing.conversationId, typing.userDid>>
             /\ typing.userDid \notin OwnerOf(c)
             /\ \E u \in OwnerOf(c) :
                   conversation_member[<<typing.conversationId, u>>].status # "none"
       /\ typing' # typing => UNCHANGED <<dbVars, chat_privacy, user_presence>>]_vars

\* B's connection has the typing event of A, A's connection does not
C35_Witness ==
    /\ "w2" \in connections["B"] /\ "w1" \in connections["A"]
    /\ Frame("typing", <<1, "A">>) \in sent["w2"]
    /\ Frame("typing", <<1, "A">>) \notin sent["w1"]

NotLeft(c, u) == conversation_member[<<c, u>>].status \in {"request", "accepted"}

\* C38: a typing event and an event sent through sendToConversation reach
\* only connections of identities whose membership in the conversation is
\* not left, and a typing event is forwarded only if the identity that typed
\* holds a membership in the conversation that is not left.
C38_ScopedToMembers ==
    [][\A c \in Conns : \A f \in sent'[c] \ sent[c] :
          /\ f[1] = "typing" =>
                /\ \E u \in OwnerOf(c) : NotLeft(f[2][1], u)
                /\ NotLeft(f[2][1], f[2][2])
          /\ f[1] = "event" => \E u \in OwnerOf(c) : NotLeft(f[2], u)]_vars

\* C36: under every interleaving of sendMessage and markRead calls, the
\* lastReadRev of a membership, once set, is only ever replaced by a revision
\* that is not smaller.
C36_LastReadRevGrows ==
    [][\A c \in ConvoIds, u \in Users :
          LET old == conversation_member[<<c, u>>].lastReadRev
              new == conversation_member'[<<c, u>>].lastReadRev
          IN  old # NoRev => (new # NoRev /\ ~LexLess(new, old))]_vars

\* C39: in every reachable state, under any order of markDelivered, markRead
\* and message fetches, a message_status row with a read time has a delivered
\* time, and the delivered time is not later than the read time.
C39_DeliveredBeforeRead ==
    \A k \in MsgIds \X Users :
        (message_status[k].exists /\ message_status[k].readAt # 0) =>
            /\ message_status[k].deliveredAt # 0
            /\ message_status[k].deliveredAt <= message_status[k].readAt

\* connection c was authenticated as u and its close event has not come
Live(c, u) == connectionMeta[c].userDid = u /\ readyState[c] \in {"OPEN", "CLOSING"}

\* C40: in every reachable state the registry has an entry for an identity
\* only with a non-empty set of connections; a connection is in the registry,
\* under the identity it authenticated as, exactly from its successful
\* authentication until its close event; and isUserOnline(u) is true if and
\* only if u has a registered connection.
C40_RegistryInvariant ==
    /\ \A u \in connectionKeys : connections[u] # {}
    /\ \A u \in Users : u \notin connectionKeys => connections[u] = {}
    /\ \A c \in Conns, u \in Users : c \in connections[u] <=> Live(c, u)
    /\ \A u \in Users : isUserOnline(u) <=> \E c \in Conns : Live(c, u)
    /\ getOnlineUsers = {u \in Users : \E c \in Conns : Live(c, u)}

\* A's first socket has closed, A's second is registered; B's only socket has
\* closed and B has no entry
C40_Witness ==
    /\ connectionMeta["w1"].userDid = "A" /\ readyState["w1"] = "CLOSED"
    /\ connections["A"] = {"w2"} /\ isUserOnline("A")
    /\ connectionKeys = {"A"}

\* no broadcastPresence call about u is in progress
PresenceSettled(u) == \A k \in PresenceCalls : presence[k].pc = "none" \/ presence[k].did # u

\* C37: presence events reach a contact in the order of the registry
\* transitions that caused them: once the broadcasts about an identity have
\* ended, the presence event an open connection of a contact received last
\* about it says online exactly if the identity has a registered connection.
C37_PresenceInOrder ==
    \A u \in Users, c \in Conns :
        (PresenceSettled(u) /\ readyState[c] = "OPEN" /\ lastPresence[c][u] # "")
        => (lastPresence[c][u] = "online" <=> connections[u] # {})

============================================================================
